---- MODULE Spec2Model ----
(***************************************************************************)
(* A model of the Confluence export converter: the HTML cleaning engine    *)
(* (core/html_cleaner.py), the breadcrumb extractors and the batch file    *)
(* processor (core/file_processor.py, core/document_tree.py).              *)
(*                                                                         *)
(* A document is a tree of nodes.  Every node is a record                  *)
(*   [tag, nid, attrs, text, kids]                                         *)
(* tag   : the tag name, "#text" for a text node, "#comment" for a comment *)
(* nid   : the identity of a node of the input (0 for a node a pass made)  *)
(* attrs : a function from attribute names to values; class maps to a      *)
(*         sequence of tokens, src to a parsed reference                   *)
(* text  : the characters of a text or comment node                        *)
(* kids  : the children, in document order                                 *)
(* Text is a sequence of one-character strings.                            *)
(***************************************************************************)
EXTENDS Integers, Sequences, FiniteSets, TLC

VARIABLES
    doc,        \* HTMLCleaner.soup: the tree being cleaned
    input,      \* the document handed to the cleaner of the current run
    title,      \* HTMLCleaner.title, extracted at construction
    pc,         \* position in HTMLCleaner.clean: the number of passes done
    outcome,    \* "running", "returned" or "raised": how clean() ended
    log,        \* the error messages the cleaner has logged
    run,        \* 1 for the first cleaning, 2 for the cleaning of its output
    firstOut,   \* the tree clean() serialized at the end of the first run
    env,        \* what the cleaner reads from its process: the working
                \* directory and the --input-dir argument
    crumbDoc,   \* breadcrumb extraction: the parsed document
    crumbOut,   \* breadcrumb extraction: what the two extractors returned
    files,      \* batch: the HTML files under the input directory
    todo,       \* batch: the files _process_html_files has not reached yet
    stats,      \* batch: FileProcessor.stats
    outFiles,   \* batch: output path -> what the file holds
    cur,        \* batch: the file _process_html_file is working on
    bpc,        \* batch: position inside process_files / _process_html_file
    outDirs,    \* batch: the directories made under the output directory
    create_docx, \* batch: FileProcessor.create_docx
    space_name, \* batch: the space name setup_directory_structure returned
    root,       \* document tree: DocumentTreeBuilder.root
    added,      \* document tree: the documents given to add_to_tree, in order
    show_filenames, \* document tree: DocumentTreeBuilder.show_filenames
    exported    \* document tree: what the last export returned

vars == <<doc, input, title, pc, outcome, log, run, firstOut, env, crumbDoc,
          crumbOut, files, todo, stats, outFiles, cur, bpc, outDirs, create_docx,
          space_name, root, added, show_filenames, exported>>

cleanVars == <<doc, input, title, pc, outcome, log, run, firstOut, env>>
treeVars == <<root, added, show_filenames, exported>>
crumbVars == <<crumbDoc, crumbOut>>
batchVars == <<files, todo, stats, outFiles, cur, bpc, outDirs, create_docx,
          space_name>>

-----------------------------------------------------------------------------
(* Sequences and text *)

Range(s) == {s[i] : i \in DOMAIN s}

\* the sequence f, with its elements computed once
Strict(f) == f \o <<>>

RECURSIVE ConcatAll(_)
ConcatAll(ss) ==
    IF ss = <<>> THEN <<>> ELSE Head(ss) \o ConcatAll(Tail(ss))

\* the concatenation of a sequence of sequences
SeqConcat(ss) == ConcatAll(Strict(ss))

Whitespace == {" ", "\n"}

RECURSIVE LStrip(_)
LStrip(s) ==
    IF s = <<>> THEN <<>>
    ELSE IF Head(s) \in Whitespace THEN LStrip(Tail(s)) ELSE s

RECURSIVE RStrip(_)
RStrip(s) ==
    IF s = <<>> THEN <<>>
    ELSE IF s[Len(s)] \in Whitespace THEN RStrip(SubSeq(s, 1, Len(s) - 1)) ELSE s

\* str.strip()
Strip(s) == RStrip(LStrip(s))

\* s.startswith(p)
StartsWith(s, p) == Len(p) <= Len(s) /\ SubSeq(s, 1, Len(p)) = p

\* p in s
Contains(s, p) ==
    \E i \in 1..(Len(s) - Len(p) + 1) : SubSeq(s, i, i + Len(p) - 1) = p

\* str.replace(old, new): every non-overlapping occurrence, left to right
RECURSIVE Replace(_, _, _)
Replace(s, old, new) ==
    IF s = <<>> THEN <<>>
    ELSE IF StartsWith(s, old)
         THEN new \o Replace(SubSeq(s, Len(old) + 1, Len(s)), old, new)
         ELSE <<Head(s)>> \o Replace(Tail(s), old, new)

\* re.sub(r'\s+', ' ', s)
RECURSIVE CollapseWs(_)
CollapseWs(s) ==
    IF s = <<>> THEN <<>>
    ELSE IF Head(s) \in Whitespace
         THEN <<" ">> \o CollapseWs(LStrip(s))
         ELSE <<Head(s)>> \o CollapseWs(Tail(s))

-----------------------------------------------------------------------------
(* Nodes *)

NoAttrs == [a \in {} |-> <<>>]

Elem(tag, attrs, kids) ==
    [tag |-> tag, nid |-> 0, attrs |-> attrs, text |-> <<>>, kids |-> kids]

TextNode(s) ==
    [tag |-> "#text", nid |-> 0, attrs |-> NoAttrs, text |-> s, kids |-> <<>>]

CommentNode(s) ==
    [tag |-> "#comment", nid |-> 0, attrs |-> NoAttrs, text |-> s, kids |-> <<>>]

IsText(n) == n.tag = "#text"
IsComment(n) == n.tag = "#comment"
IsElem(n) == ~IsText(n) /\ ~IsComment(n)

Has(n, a) == a \in DOMAIN n.attrs

\* tag.get(a, default)
Get(n, a, default) == IF Has(n, a) THEN n.attrs[a] ELSE default

\* del tag[a]
DelAttr(n, a) ==
    [n EXCEPT !.attrs = [b \in (DOMAIN n.attrs) \ {a} |-> n.attrs[b]]]

\* tag[a] = v
SetAttr(n, a, v) ==
    [n EXCEPT !.attrs = [b \in (DOMAIN n.attrs) \cup {a} |->
                            IF b = a THEN v ELSE n.attrs[b]]]

\* the attributes of n restricted to the names in keep
KeepAttrs(n, keep) ==
    [n EXCEPT !.attrs = [b \in (DOMAIN n.attrs) \cap keep |-> n.attrs[b]]]

Classes(n) == Get(n, "class", <<>>)

\* find_all(..., class_=c): one of the element's class tokens is c
HasClass(n, c) == IsElem(n) /\ c \in Range(Classes(n))

\* every node of the subtree of n, n first, in document order
RECURSIVE Nodes(_)
Nodes(n) ==
    <<n>> \o SeqConcat([i \in 1..Len(n.kids) |-> Nodes(n.kids[i])])

\* the descendants of n in document order
Descendants(n) == Tail(Nodes(n))

\* the children of n, each replaced by the nodes F gives for it
FlatKids(n, F(_)) == SeqConcat([i \in 1..Len(n.kids) |-> F(n.kids[i])])

\* find(tag, class_=c) below n: the first descendant with that tag and class,
\* as a sequence of at most one node
FindTagClass(n, tag, c) ==
    LET hits == SelectSeq(Descendants(n), LAMBDA m : m.tag = tag /\ HasClass(m, c))
    IN  IF hits = <<>> THEN <<>> ELSE <<Head(hits)>>

\* find(tag) below n
FindTag(n, tag) ==
    LET hits == SelectSeq(Descendants(n), LAMBDA m : m.tag = tag)
    IN  IF hits = <<>> THEN <<>> ELSE <<Head(hits)>>

\* get_text(): the text of every text node below n, in order; with strip=True
\* every string is stripped first and an empty one contributes nothing
RECURSIVE GetText(_, _)
GetText(n, strip) ==
    IF IsText(n) THEN (IF strip THEN Strip(n.text) ELSE n.text)
    ELSE IF IsComment(n) THEN <<>>
    ELSE SeqConcat([i \in 1..Len(n.kids) |-> GetText(n.kids[i], strip)])

-----------------------------------------------------------------------------
(* HTMLCleaner.__init__: the denylists *)

confluence_classes == {
    "theme-default", "aui-theme-default", "first", "pagetitle", "wiki-content",
    "group", "contentLayout2", "columnLayout", "fixed-width", "cell", "normal",
    "innerCell", "toc-macro", "toc-indentation", "confluenceTable",
    "confluenceTd", "emoticon", "emoticon-blue-star", "image-center-wrapper",
    "confluence-embedded-image", "image-center", "panel", "panelContent",
    "inline-task-list", "placeholder-inline-tasks", "confluence-userlink",
    "user-mention", "current-user-mention", "date-upcoming", "date-future",
    "confluenceTh", "confluence-information-macro",
    "confluence-information-macro-information", "aui-icon", "aui-icon-small",
    "aui-iconfont-info", "confluence-information-macro-icon",
    "confluence-information-macro-body", "confluence-embedded-file-wrapper",
    "expand-container", "expand-control", "expand-control-icon",
    "expand-control-image", "expand-control-text", "expand-content",
    "status-macro", "aui-lozenge", "aui-lozenge-progress",
    "aui-lozenge-complete", "table-wrapper", "task-blanket", "aui",
    "tasks-table-interactive", "tasks-report", "tablesorter-headerRow",
    "header-description", "tasks-table-column-unsortable", "header-duedate",
    "header-assignee", "header-location", "tasks-report-date",
    "tasks-report-assignee", "task-location", "greybox", "footer-body",
    "external-link", "url", "fn", "aui-page-panel", "view", "data-colorid",
    "decision-list" }

confluence_ids == {
    "page", "main", "main-header", "breadcrumb-section", "breadcrumbs",
    "title-heading", "title-text", "content", "main-content", "attachments",
    "footer", "footer-logo", "data-inline-tasks-content-id" }

\* a variant of the filter that keeps every class token
KeepAllClasses(cs) == cs

\* [cls for cls in tag['class'] if cls not in self.confluence_classes]
CleanedClasses(cs) == SelectSeq(cs, LAMBDA c : c \notin confluence_classes)

\* the class filter the passes share: the filtered list when it is non-empty,
\* del tag['class'] otherwise; nothing when the tag has no class attribute
FilterClass(n) ==
    IF ~Has(n, "class") THEN n
    ELSE IF CleanedClasses(n.attrs["class"]) # <<>>
         THEN SetAttr(n, "class", CleanedClasses(n.attrs["class"]))
         ELSE DelAttr(n, "class")

-----------------------------------------------------------------------------
(* Pass 1: HTMLCleaner._process_emojis *)

RECURSIVE LStripColon(_)
LStripColon(s) ==
    IF s # <<>> /\ Head(s) = ":" THEN LStripColon(Tail(s)) ELSE s

RECURSIVE RStripColon(_)
RStripColon(s) ==
    IF s # <<>> /\ s[Len(s)] = ":"
    THEN RStripColon(SubSeq(s, 1, Len(s) - 1)) ELSE s

RECURSIVE EmojisIn(_)
EmojisIn(n) ==
    IF n.tag = "img" /\ HasClass(n, "emoticon")
    THEN IF Get(n, "data-emoji-fallback", <<>>) # <<>>
         THEN <<TextNode(n.attrs["data-emoji-fallback"])>>
         ELSE IF Get(n, "data-emoji-shortname", <<>>) # <<>>
              THEN <<TextNode(<<":">>
                       \o RStripColon(LStripColon(n.attrs["data-emoji-shortname"]))
                       \o <<":">>)>>
              ELSE <<>>
    ELSE <<[n EXCEPT !.kids = FlatKids(n, EmojisIn)]>>

_process_emojis(d) == EmojisIn(d)[1]

-----------------------------------------------------------------------------
(* Strings the code looks inside, as text *)

S_confluence == <<"c","o","n","f","l","u","e","n","c","e">>
S_people == <<"p","e","o","p","l","e">>
S_javascript == <<"j","a","v","a","s","c","r","i","p","t",":">>

-----------------------------------------------------------------------------
(* Pass 2: HTMLCleaner._process_images                                     *)
(*                                                                         *)
(* A src value is a reference split the way urllib.parse.urlparse splits   *)
(* it: scheme, auth (a //netloc part is present), rooted (the path starts  *)
(* with "/"), path (the rest of the path), query, and bad (urlparse raises *)
(* ValueError on it, as on an unbalanced "[" in the netloc).  via tells    *)
(* how the value was made: "orig" is the input's, "cwd" the result of      *)
(* os.path.join(os.getcwd(), args.input_dir, path), "basetag" the value    *)
(* urljoin returns for an empty url.  base holds the directories a "cwd"   *)
(* value was joined to.                                                    *)

Src(scheme, auth, rooted, path, query, bad) ==
    [scheme |-> scheme, auth |-> auth, rooted |-> rooted, path |-> path,
     query |-> query, bad |-> bad, via |-> "orig", base |-> <<>>]

\* the string is non-empty: `img['src']` is truthy
SrcNonEmpty(s) ==
    s.scheme # "" \/ s.auth \/ s.rooted \/ s.path # "" \/ s.query # "" \/ s.bad

\* urlparse(src).path: scheme, netloc and query are dropped
UrlPath(s) == [rooted |-> s.rooted, path |-> s.path]

\* src.startswith(('http://', 'https://', 'file://', '/')) on a path urlparse
\* returned: a path never starts with a scheme, so only "/" can match
PathIsAbsolute(p) == p.rooted

\* the process a cleaner runs in: os.getcwd(), and the --input-dir argument
\* the module parsed when it was imported (html_cleaner.args.input_dir)
Env(cwd, input_dir, is_abs) ==
    [cwd |-> cwd, input_dir |-> input_dir, is_abs |-> is_abs]

Env0 == Env("/work", "in", FALSE)

Envs == {Env0, Env("/other", "in", FALSE), Env("/work", "export", FALSE),
         Env("/other", "/abs/in", TRUE)}

\* os.path.join(os.getcwd(), input_dirhtml): an absolute second path
\* discards the first
JoinedDirs(e) ==
    IF e.is_abs THEN <<e.input_dir>> ELSE <<e.cwd, e.input_dir>>

\* os.path.join(os.getcwd(), input_dirhtml, src): os.getcwd() is rooted
JoinCwd(p) ==
    [scheme |-> "", auth |-> FALSE, rooted |-> TRUE, path |-> p.path,
     query |-> "", bad |-> FALSE, via |-> "cwd",
     base |-> JoinedDirs(env)]

allowed_attrs == {"src", "alt", "title", "width", "height", "style"}

\* getattr(self.soup, 'base_url', None): Tag.__getattr__ is find(), so this
\* is the first <base_url> element of the document, or None
BaseUrl(d) == FindTag(d, "base_url")

\* the try block of one image raises: urlparse on a malformed reference, or
\* urljoin(base_url, src) with a Tag for base_url and a non-empty src
ImageRaises(n, base) ==
    /\ Has(n, "src") /\ SrcNonEmpty(n.attrs["src"])
    /\ \/ n.attrs["src"].bad
       \/ /\ ~PathIsAbsolute(UrlPath(n.attrs["src"]))
          /\ base # <<>>
          /\ UrlPath(n.attrs["src"]).path # ""

\* a variant of the first statements of the try block that stops before the
\* alt attribute is ensured
ImageAllowedAttrs(n) == KeepAttrs(n, allowed_attrs)

\* the statements of the try block up to the src handling
ImageAttrs(n) ==
    LET kept == KeepAttrs(n, allowed_attrs)
    IN  IF Has(kept, "alt") THEN kept ELSE SetAttr(kept, "alt", <<>>)

ImageSrc(n, base) ==
    IF Has(n, "src") /\ SrcNonEmpty(n.attrs["src"])
       /\ ~PathIsAbsolute(UrlPath(n.attrs["src"]))
    THEN IF base # <<>>
         THEN SetAttr(n, "src", [n.attrs["src"] EXCEPT !.via = "basetag"])
         ELSE SetAttr(n, "src", JoinCwd(UrlPath(n.attrs["src"])))
    ELSE n

ImageStyle(n) ==
    IF Has(n, "style") /\ Contains(n.attrs["style"], S_confluence)
    THEN DelAttr(n, "style") ELSE n

ProcessImage(n, base) ==
    IF ImageRaises(n, base)
    THEN ImageAttrs(n)
    ELSE ImageStyle(ImageSrc(ImageAttrs(n), base))

RECURSIVE ImagesIn(_, _)
ImagesIn(n, base) ==
    IF n.tag = "img" THEN ProcessImage(n, base)
    ELSE [n EXCEPT !.kids = Strict([i \in 1..Len(n.kids) |-> ImagesIn(n.kids[i], base)])]

_process_images(d) == ImagesIn(d, BaseUrl(d))

\* the number of "Error processing image" records the pass logs
ImageErrors(d) ==
    LET base == BaseUrl(d)
    IN  Len(SelectSeq(Nodes(d), LAMBDA n : n.tag = "img" /\ ImageRaises(n, base)))

-----------------------------------------------------------------------------
(* Pass 3: HTMLCleaner._process_links *)

\* the attribute names of the model that start with "on"
OnAttrs == {"onclick", "onload"}

\* 'confluence' in href and 'people' in href
IsUserLink(href) == Contains(href, S_confluence) /\ Contains(href, S_people)

LinkAttrs(n) ==
    LET noOn == KeepAttrs(n, (DOMAIN n.attrs) \ OnAttrs)
        noJs == IF Has(noOn, "href") /\ StartsWith(noOn.attrs["href"], S_javascript)
                THEN DelAttr(noOn, "href") ELSE noOn
    IN  FilterClass(noJs)

RECURSIVE LinksIn(_)
LinksIn(n) ==
    IF n.tag = "a" /\ Has(n, "href")
       /\ ~StartsWith(n.attrs["href"], S_javascript) /\ IsUserLink(n.attrs["href"])
    THEN <<TextNode(GetText(n, FALSE))>>
    ELSE IF n.tag = "a"
         THEN <<[LinkAttrs(n) EXCEPT !.kids = FlatKids(n, LinksIn)]>>
         ELSE <<[n EXCEPT !.kids = FlatKids(n, LinksIn)]>>

_process_links(d) == LinksIn(d)[1]

-----------------------------------------------------------------------------
(* Pass 4: HTMLCleaner._process_status_macros *)

status_class_mapping ==
    [c \in {"aui-lozenge-success", "aui-lozenge-error", "aui-lozenge-current",
            "aui-lozenge-complete", "aui-lozenge-progress", "aui-lozenge-moved",
            "aui-lozenge"} |->
        CASE c = "aui-lozenge-success"  -> "status-green"
          [] c = "aui-lozenge-error"    -> "status-red"
          [] c = "aui-lozenge-current"  -> "status-yellow"
          [] c = "aui-lozenge-complete" -> "status-blue"
          [] c = "aui-lozenge-progress" -> "status-purple"
          [] c = "aui-lozenge-moved"    -> "status-teal"
          [] c = "aui-lozenge"          -> "status-gray"]

\* the loop over the span's classes: each class of the mapping overwrites
\* status_class, so the last one in the list decides
RECURSIVE StatusLoop(_, _)
StatusLoop(classes, status_class) ==
    IF classes = <<>> THEN status_class
    ELSE StatusLoop(Tail(classes),
                    IF Head(classes) \in DOMAIN status_class_mapping
                    THEN status_class_mapping[Head(classes)]
                    ELSE status_class)

StatusClass(classes) == StatusLoop(classes, "status-gray")

StrongTag(span) ==
    Elem("strong", [class |-> <<StatusClass(Classes(span))>>],
         <<TextNode(GetText(span, TRUE))>>)

RECURSIVE StatusIn(_, _)
StatusIn(n, parentTag) ==
    IF n.tag = "span" /\ HasClass(n, "status-macro")
    THEN IF parentTag # "p"
         THEN Elem("p", NoAttrs, <<StrongTag(n)>>)
         ELSE StrongTag(n)
    ELSE [n EXCEPT !.kids = Strict([i \in 1..Len(n.kids) |-> StatusIn(n.kids[i], n.tag)])]

_process_status_macros(d) == StatusIn(d, "[document]")

-----------------------------------------------------------------------------
(* Pass 5: HTMLCleaner._process_expand_containers *)

RECURSIVE ExpandIn(_)
ExpandIn(n) ==
    IF n.tag = "div" /\ HasClass(n, "expand-container")
    THEN LET expand_control == FindTagClass(n, "div", "expand-control")
             control_text_span ==
                 IF expand_control = <<>> THEN <<>>
                 ELSE FindTagClass(expand_control[1], "span", "expand-control-text")
             em_tag ==
                 IF control_text_span = <<>> THEN <<>>
                 ELSE <<Elem("em", NoAttrs,
                             <<TextNode(GetText(control_text_span[1], TRUE))>>)>>
             expand_content == FindTagClass(n, "div", "expand-content")
             moved == IF expand_content = <<>> THEN <<>>
                      ELSE FlatKids(expand_content[1], ExpandIn)
         IN  <<Elem("div", [class |-> <<"expand-box">>], em_tag \o moved)>>
    ELSE <<[n EXCEPT !.kids = FlatKids(n, ExpandIn)]>>

_process_expand_containers(d) == ExpandIn(d)[1]

-----------------------------------------------------------------------------
(* Pass 6: HTMLCleaner._process_decision_lists *)

S_DECISAO == <<"D","E","C","I","S","~A","O">>

\* what is left of moved content once the loop has emptied every li in it
RECURSIVE EmptiedLis(_)
EmptiedLis(n) ==
    IF n.tag = "li" THEN [n EXCEPT !.kids = <<>>]
    ELSE [n EXCEPT !.kids = Strict([i \in 1..Len(n.kids) |-> EmptiedLis(n.kids[i])])]

\* the contents of every li below the list, in the order find_all('li') gives
LiContents(ul) ==
    LET lis == SelectSeq(Descendants(ul), LAMBDA m : m.tag = "li")
    IN  SeqConcat([i \in 1..Len(lis) |->
            Strict([j \in 1..Len(lis[i].kids) |-> EmptiedLis(lis[i].kids[j])])])

RECURSIVE DecisionIn(_)
DecisionIn(n) ==
    IF n.tag = "ul" /\ HasClass(n, "decision-list")
    THEN LET box == Elem("div", [class |-> <<"decision-box">>], LiContents(n))
         IN  <<[box EXCEPT !.kids =
                   <<Elem("em", NoAttrs, <<TextNode(S_DECISAO)>>)>>
                   \o FlatKids(box, DecisionIn)]>>
    ELSE <<[n EXCEPT !.kids = FlatKids(n, DecisionIn)]>>

_process_decision_lists(d) == DecisionIn(d)[1]

-----------------------------------------------------------------------------
(* Pass 7: HTMLCleaner._convert_column_layouts *)

layout_types ==
    <<"two-equal", "two-right-sidebar", "two-left-sidebar", "three-equal",
      "three-with-sidebars">>

\* one of the selectors div.columnLayout.<layout> matches
IsLayout(n) ==
    /\ n.tag = "div" /\ HasClass(n, "columnLayout")
    /\ \E i \in DOMAIN layout_types : HasClass(n, layout_types[i])

\* data-layout when set, else the first class of the div that is a layout type
LayoutType(n) ==
    IF Get(n, "data-layout", "") # "" THEN n.attrs["data-layout"]
    ELSE Head(SelectSeq(Classes(n), LAMBDA c : c \in Range(layout_types)))

\* layout_div.find_all('div', class_='cell', recursive=False)
Cells(n) == SelectSeq(n.kids, LAMBDA m : m.tag = "div" /\ HasClass(m, "cell"))

ColWidths(layout_type, num_cells) ==
    CASE layout_type = "two-equal"           -> <<"50%", "50%">>
      [] layout_type = "two-right-sidebar"   -> <<"33%", "67%">>
      [] layout_type = "two-left-sidebar"    -> <<"67%", "33%">>
      [] layout_type = "three-equal"         -> <<"33%", "33%", "33%">>
      [] layout_type = "three-with-sidebars" -> <<"25%", "50%", "25%">>
      [] OTHER -> Strict([i \in 1..num_cells |-> "100%"])

width_class_mapping ==
    [w \in {"25%", "33%", "50%", "67%", "75%", "100%"} |->
        CASE w = "25%" -> "column-25" [] w = "33%" -> "column-33"
          [] w = "50%" -> "column-50" [] w = "67%" -> "column-67"
          [] w = "75%" -> "column-75" [] w = "100%" -> "column-100"]

\* col_widths[idx] raises IndexError for a cell beyond the variant's widths
LayoutRaises(n) ==
    Len(Cells(n)) > Len(ColWidths(LayoutType(n), Len(Cells(n))))

\* the content the loop moves out of one cell: the children of the first
\* div.innerCell below it, or the cell's own children
CellContents(cell) ==
    LET inner_cell == FindTagClass(cell, "div", "innerCell")
    IN  IF inner_cell # <<>> THEN inner_cell[1].kids ELSE cell.kids

\* a sequence of nodes with the first div.innerCell in it emptied
RECURSIVE EmptyFirstInner(_)
EmptyFirstInner(ns) ==
    IF ns = <<>> THEN [ns |-> <<>>, done |-> FALSE]
    ELSE LET h == Head(ns)
         IN  IF h.tag = "div" /\ HasClass(h, "innerCell")
             THEN [ns |-> <<[h EXCEPT !.kids = <<>>]>> \o Tail(ns), done |-> TRUE]
             ELSE LET sub == EmptyFirstInner(h.kids)
                  IN  IF sub.done
                      THEN [ns |-> <<[h EXCEPT !.kids = sub.ns]>> \o Tail(ns),
                            done |-> TRUE]
                      ELSE LET rest == EmptyFirstInner(Tail(ns))
                           IN  [ns |-> <<h>> \o rest.ns, done |-> rest.done]

\* a cell after its content was moved into a td
EmptiedCell(cell) ==
    IF FindTagClass(cell, "div", "innerCell") # <<>>
    THEN [cell EXCEPT !.kids = EmptyFirstInner(cell.kids).ns]
    ELSE [cell EXCEPT !.kids = <<>>]

\* the children of a layout whose conversion raised at cell number k + 1: the
\* first k cells have lost their content to the td elements that are dropped
RECURSIVE AfterFailure(_, _)
AfterFailure(kids, k) ==
    IF kids = <<>> THEN <<>>
    ELSE IF k > 0 /\ Head(kids).tag = "div" /\ HasClass(Head(kids), "cell")
         THEN <<EmptiedCell(Head(kids))>> \o AfterFailure(Tail(kids), k - 1)
         ELSE <<Head(kids)>> \o AfterFailure(Tail(kids), k)

RECURSIVE LayoutsIn(_)
LayoutsIn(n) ==
    IF IsLayout(n)
    THEN LET cells == Cells(n)
             col_widths == ColWidths(LayoutType(n), Len(cells))
             Td(idx) ==
                 LET width_class ==
                         IF col_widths[idx] \in DOMAIN width_class_mapping
                         THEN width_class_mapping[col_widths[idx]] ELSE ""
                     content == CellContents(cells[idx])
                     moved == SeqConcat([j \in 1..Len(content) |->
                                           LayoutsIn(content[j])])
                 IN  Elem("td",
                          IF width_class # "" THEN [class |-> <<width_class>>]
                          ELSE NoAttrs,
                          moved)
         IN  IF LayoutRaises(n)
             THEN LET left == [n EXCEPT !.kids = AfterFailure(n.kids, Len(col_widths))]
                  IN  <<[left EXCEPT !.kids = FlatKids(left, LayoutsIn)]>>
             ELSE <<Elem("table", NoAttrs,
                         <<Elem("tr", NoAttrs,
                                Strict([idx \in 1..Len(cells) |-> Td(idx)]))>>)>>
    ELSE <<[n EXCEPT !.kids = FlatKids(n, LayoutsIn)]>>

_convert_column_layouts(d) == LayoutsIn(d)[1]

\* the pass logs "Error converting column layout" at least once
LayoutErrors(d) ==
    \E n \in Range(Nodes(d)) : IsLayout(n) /\ LayoutRaises(n)

-----------------------------------------------------------------------------
(* Pass 8: HTMLCleaner._unwrap_table_wrappers *)

RECURSIVE UnwrapIn(_)
UnwrapIn(n) ==
    IF n.tag = "div" /\ HasClass(n, "table-wrap")
    THEN IF FindTag(n, "table") # <<>>
         THEN UnwrapIn(FindTag(n, "table")[1])
         ELSE FlatKids(n, UnwrapIn)
    ELSE <<[n EXCEPT !.kids = FlatKids(n, UnwrapIn)]>>

_unwrap_table_wrappers(d) == UnwrapIn(d)[1]

-----------------------------------------------------------------------------
(* Pass 9: HTMLCleaner._remove_unnecessary_sections                        *)
(* Accented letters are written as two-character tokens ("~A", "c,").     *)

S_footer_phrase == <<"D","o","c","u","m","e","n","t"," ","g","e","n","e","r","a","t","e","d"," ","b","y"," ","C","o","n","f","l","u","e","n","c","e">>
S_site_css == <<"s","t","y","l","e","s","/","s","i","t","e",".","c","s","s">>

\* a variant of the selector list with the vendor links and metas alone
IsVendorLink(n) ==
    \/ /\ n.tag = "link" /\ Get(n, "rel", "") = "stylesheet"
       /\ Has(n, "href") /\ Contains(n.attrs["href"], S_confluence)
    \/ n.tag = "meta" /\ Has(n, "name") /\ Contains(n.attrs["name"], S_confluence)
    \/ n.tag = "link" /\ Has(n, "href") /\ n.attrs["href"] = S_site_css

\* one of selectors_to_remove matches the element
IsUnnecessary(n) ==
    \/ n.tag = "div" /\ Get(n, "id", "") = "footer"
    \/ n.tag = "div" /\ HasClass(n, "footer-body")
    \/ n.tag = "section" /\ HasClass(n, "footer-body")
    \/ n.tag = "div" /\ Get(n, "role", "") = "contentinfo"
    \/ n.tag = "div" /\ Get(n, "id", "") = "footer-logo"
    \/ n.tag = "div" /\ HasClass(n, "page-metadata")
    \/ n.tag = "div" /\ Get(n, "id", "") = "breadcrumb-section"
    \/ n.tag = "script"
    \/ /\ n.tag = "link" /\ Get(n, "rel", "") = "stylesheet"
       /\ Has(n, "href") /\ Contains(n.attrs["href"], S_confluence)
    \/ n.tag = "meta" /\ Has(n, "name") /\ Contains(n.attrs["name"], S_confluence)
    \/ n.tag = "link" /\ Has(n, "href") /\ n.attrs["href"] = S_site_css

RECURSIVE RemoveSelected(_)
RemoveSelected(n) ==
    IF IsElem(n) /\ IsUnnecessary(n) THEN <<>>
    ELSE <<[n EXCEPT !.kids = FlatKids(n, RemoveSelected)]>>

\* 'Document generated by Confluence' in p.get_text()
RECURSIVE RemoveFooterText(_)
RemoveFooterText(n) ==
    IF n.tag = "p" /\ Contains(GetText(n, FALSE), S_footer_phrase) THEN <<>>
    ELSE <<[n EXCEPT !.kids = FlatKids(n, RemoveFooterText)]>>

RECURSIVE RemoveComments(_)
RemoveComments(n) ==
    IF IsComment(n) THEN <<>>
    ELSE <<[n EXCEPT !.kids = FlatKids(n, RemoveComments)]>>

_remove_unnecessary_sections(d) ==
    RemoveComments(RemoveFooterText(RemoveSelected(d)[1])[1])[1]

-----------------------------------------------------------------------------
(* Pass 10: HTMLCleaner._clean_metadata *)

translations ==
    << <<<<"C","r","e","a","t","e","d"," ","b","y">>,
         <<"C","r","i","a","d","o"," ","p","o","r">>>>,
       <<<<"o","n">>, <<"e","m">>>>,
       <<<<"L","a","s","t"," ","m","o","d","i","f","i","e","d"," ","b","y">>,
         <<"'U","l","t","i","m","a"," ","m","o","d","i","f","i","c","a","c,","~a","o"," ","p","o","r">>>>,
       <<<<"a","t">>, <<"^a","s">>>> >>

\* the loop over translations on one text: find_all(string=re.compile(old))
\* selects the text when old occurs in it, and str.replace rewrites it
RECURSIVE Translate(_, _)
Translate(s, k) ==
    IF k > Len(translations) THEN s
    ELSE Translate(Replace(s, translations[k][1], translations[k][2]), k + 1)

RECURSIVE TranslateTexts(_)
TranslateTexts(n) ==
    IF IsText(n) THEN [n EXCEPT !.text = Translate(n.text, 1)]
    ELSE [n EXCEPT !.kids = Strict([i \in 1..Len(n.kids) |-> TranslateTexts(n.kids[i])])]

\* a sequence of nodes with the first div.page-metadata in it translated
RECURSIVE TranslateFirstMetadata(_)
TranslateFirstMetadata(ns) ==
    IF ns = <<>> THEN [ns |-> <<>>, done |-> FALSE]
    ELSE LET h == Head(ns)
         IN  IF h.tag = "div" /\ HasClass(h, "page-metadata")
             THEN [ns |-> <<TranslateTexts(h)>> \o Tail(ns), done |-> TRUE]
             ELSE LET sub == TranslateFirstMetadata(h.kids)
                  IN  IF sub.done
                      THEN [ns |-> <<[h EXCEPT !.kids = sub.ns]>> \o Tail(ns),
                            done |-> TRUE]
                      ELSE LET rest == TranslateFirstMetadata(Tail(ns))
                           IN  [ns |-> <<h>> \o rest.ns, done |-> rest.done]

_clean_metadata(d) == [d EXCEPT !.kids = TranslateFirstMetadata(d.kids).ns]

-----------------------------------------------------------------------------
(* Pass 11: HTMLCleaner._remove_confluence_specific *)

confluence_selector_classes ==
    <<"", "confluence-information-macro", "expand-container",
      "confluence-embedded-file-wrapper", "contentLayout2", "columnLayout",
      "hidden-section", "toc-macro">>

\* confluence_selectors[k] matches: the first is [data-macro-name], the
\* others are class selectors
ConfluenceSelector(n, k) ==
    /\ IsElem(n)
    /\ IF k = 1 THEN Has(n, "data-macro-name")
       ELSE HasClass(n, confluence_selector_classes[k])

\* the loop over select(confluence_selectors[k]): a table of contents is
\* decomposed, anything else is unwrapped
RECURSIVE ConfluenceIn(_, _)
ConfluenceIn(n, k) ==
    IF ConfluenceSelector(n, k)
    THEN IF HasClass(n, "toc-macro") THEN <<>>
         ELSE SeqConcat([i \in 1..Len(n.kids) |-> ConfluenceIn(n.kids[i], k)])
    ELSE <<[n EXCEPT !.kids =
               SeqConcat([i \in 1..Len(n.kids) |-> ConfluenceIn(n.kids[i], k)])]>>

\* select() returned an element below a table of contents it also returned:
\* decompose() has cleared that element by the time the loop reaches it, and
\* element.get('class', []) raises AttributeError on it
ConfluenceRaisesAt(d, k) ==
    \E n \in Range(Nodes(d)) :
        /\ ConfluenceSelector(n, k) /\ HasClass(n, "toc-macro")
        /\ \E m \in Range(Descendants(n)) : ConfluenceSelector(m, k)

\* the tree after the loops of the selectors k, k + 1, ...
RECURSIVE ConfluenceFrom(_, _)
ConfluenceFrom(d, k) ==
    IF k > Len(confluence_selector_classes) THEN d
    ELSE ConfluenceFrom(ConfluenceIn(d, k)[1], k + 1)

RECURSIVE ConfluenceRaisesFrom(_, _)
ConfluenceRaisesFrom(d, k) ==
    IF k > Len(confluence_selector_classes) THEN FALSE
    ELSE \/ ConfluenceRaisesAt(d, k)
         \/ ConfluenceRaisesFrom(ConfluenceIn(d, k)[1], k + 1)

\* 'confluence' in tag.get_text(), for the style and script elements
RECURSIVE RemoveVendorCode(_)
RemoveVendorCode(n) ==
    IF n.tag \in {"style", "script"} /\ Contains(GetText(n, FALSE), S_confluence)
    THEN <<>>
    ELSE <<[n EXCEPT !.kids = FlatKids(n, RemoveVendorCode)]>>

_remove_confluence_specific(d) == RemoveVendorCode(ConfluenceFrom(d, 1))[1]

RemoveConfluenceRaises(d) == ConfluenceRaisesFrom(d, 1)

-----------------------------------------------------------------------------
(* Pass 12: HTMLCleaner._clean_attributes_and_classes *)

\* the ids of the model that start with "expander-"
ExpanderIds == {"expander-1", "expander-control-1", "expander-content-1"}

\* the attribute names of the model that start with "data-"
DataAttrs == {"data-layout", "data-macro-name", "data-emoji-fallback",
              "data-emoji-shortname", "data-test"}

\* a variant of the sanitization that leaves the data- attributes in place
CleanAttributesKeepingData(n) ==
    LET noId == IF Has(n, "id")
                   /\ (n.attrs["id"] \in confluence_ids \/ n.attrs["id"] \in ExpanderIds)
                THEN DelAttr(n, "id") ELSE n
    IN  FilterClass(noId)

CleanAttributes(n) ==
    LET noId == IF Has(n, "id")
                   /\ (n.attrs["id"] \in confluence_ids \/ n.attrs["id"] \in ExpanderIds)
                THEN DelAttr(n, "id") ELSE n
        noCls == FilterClass(noId)
    IN  KeepAttrs(noCls, (DOMAIN noCls.attrs) \ DataAttrs)

RECURSIVE AttributesIn(_)
AttributesIn(n) ==
    IF IsElem(n)
    THEN [CleanAttributes(n) EXCEPT
             !.kids = Strict([i \in 1..Len(n.kids) |-> AttributesIn(n.kids[i])])]
    ELSE n

_clean_attributes_and_classes(d) == AttributesIn(d)

-----------------------------------------------------------------------------
(* Pass 13: HTMLCleaner._clean_tables *)

allowed_cell_attrs == {"colspan", "rowspan", "class"}

CleanCell(cell) ==
    LET noCls == FilterClass(cell)
        noStyle == IF Has(noCls, "style") THEN DelAttr(noCls, "style") ELSE noCls
    IN  KeepAttrs(noStyle, allowed_cell_attrs)

\* table.get('class', []) with 'custom-table' appended
AddCustomTable(table) ==
    SetAttr(table, "class", Classes(table) \o <<"custom-table">>)

CleanTable(table) ==
    LET withCls == AddCustomTable(FilterClass(table))
    IN  KeepAttrs(withCls, (DOMAIN withCls.attrs)
                               \ {"border", "cellspacing", "cellpadding", "style"})

\* inTable: the node lies below a table, so table.find_all(['td', 'th'])
\* reaches it
RECURSIVE TablesIn(_, _)
TablesIn(n, inTable) ==
    LET m == IF n.tag = "table" THEN CleanTable(n)
             ELSE IF inTable /\ n.tag \in {"td", "th"} THEN CleanCell(n)
             ELSE n
    IN  [m EXCEPT !.kids = Strict([i \in 1..Len(n.kids) |->
                               TablesIn(n.kids[i], inTable \/ n.tag = "table")])]

_clean_tables(d) == TablesIn(d, FALSE)

-----------------------------------------------------------------------------
(* Pass 14: HTMLCleaner._standardize_headings *)

heading_levels == {"h1", "h2", "h3", "h4", "h5", "h6"}

RECURSIVE HeadingsIn(_)
HeadingsIn(n) ==
    IF n.tag \in heading_levels
    THEN Elem(n.tag, NoAttrs, <<TextNode(GetText(n, TRUE))>>)
    ELSE [n EXCEPT !.kids = Strict([i \in 1..Len(n.kids) |-> HeadingsIn(n.kids[i])])]

_standardize_headings(d) == HeadingsIn(d)

-----------------------------------------------------------------------------
(* Pass 15: HTMLCleaner._clean_lists *)

CleanItem(item) == KeepAttrs(FilterClass(item), {"class", "value"})

RECURSIVE ListsIn(_, _)
ListsIn(n, inList) ==
    LET m == IF inList /\ n.tag = "li" THEN CleanItem(n) ELSE n
    IN  [m EXCEPT !.kids = Strict([i \in 1..Len(n.kids) |->
                               ListsIn(n.kids[i], inList \/ n.tag \in {"ul", "ol"})])]

_clean_lists(d) == ListsIn(d, FALSE)

-----------------------------------------------------------------------------
(* Pass 16: HTMLCleaner._remove_empty_elements *)

tags_to_check == {"p", "div", "span", "strong", "em", "i", "b"}

\* a variant of the test that does not look for images and line breaks
IsEmptyElementIgnoringImages(n) ==
    n.tag \in tags_to_check /\ GetText(n, TRUE) = <<>>

\* not tag.get_text(strip=True) and not tag.find_all(['img', 'br'])
IsEmptyElement(n) ==
    /\ n.tag \in tags_to_check
    /\ GetText(n, TRUE) = <<>>
    /\ \A m \in Range(Descendants(n)) : m.tag \notin {"img", "br"}

RECURSIVE EmptyIn(_)
EmptyIn(n) ==
    IF IsEmptyElement(n) THEN <<>>
    ELSE <<[n EXCEPT !.kids = FlatKids(n, EmptyIn)]>>

_remove_empty_elements(d) == EmptyIn(d)[1]

-----------------------------------------------------------------------------
(* Pass 17: HTMLCleaner._cleanup_whitespace *)

inline_elements == {"strong", "em", "i", "b", "span", "a", "code"}

\* the text at position i of its parent's children is next to an inline
\* element: its next or its previous sibling is one
NextToInline(kids, i) ==
    \/ i < Len(kids) /\ kids[i + 1].tag \in inline_elements
    \/ i > 1 /\ kids[i - 1].tag \in inline_elements

CleanText(parent, i) ==
    LET text == parent.kids[i]
        cleaned_text == CollapseWs(text.text)
    IN  IF parent.tag \in {"pre", "code"} THEN text
        ELSE IF parent.tag \notin inline_elements /\ ~NextToInline(parent.kids, i)
             THEN [text EXCEPT !.text = Strip(cleaned_text)]
             ELSE [text EXCEPT !.text = cleaned_text]

RECURSIVE WhitespaceIn(_)
WhitespaceIn(n) ==
    [n EXCEPT !.kids = Strict([i \in 1..Len(n.kids) |->
        IF IsText(n.kids[i]) THEN CleanText(n, i)
        ELSE WhitespaceIn(n.kids[i])])]

_cleanup_whitespace(d) == WhitespaceIn(d)

-----------------------------------------------------------------------------
(* Passes 18 to 20 work on the head.  The parser leaves a head element    *)
(* only as a child of html, so soup.head is a child of the root.           *)

S_untitled ==
    <<"U","n","t","i","t","l","e","d"," ","D","o","c","u","m","e","n","t">>

S_utf8 == <<"U","T","F","-","8">>

S_fonts_href ==
    <<"h","t","t","p","s",":","/","/","f","o","n","t","s",".","g","o","o",
      "g","l","e","a","p","i","s",".","c","o","m","/","c","s","s","2","?",
      "f","a","m","i","l","y","=","D","M","+","S","a","n","s",":","w","g",
      "h","t","@","4","0","0",";","7","0","0","&","f","a","m","i","l","y",
      "=","R","o","b","o","t","o",":","w","g","h","t","@","4","0","0",";",
      "7","0","0","&","d","i","s","p","l","a","y","=","s","w","a","p">>

\* the text of the fixed style sheet, by its first rule
S_custom_css == <<"b","o","d","y"," ","{"," ","f","o","n","t","-","f","a","m","i","l","y",":"," ","s","a","n","s",";"," ","}">>

\* Tag.string: the single string below the tag, or none (an empty sequence)
RECURSIVE TagString(_)
TagString(n) ==
    IF Len(n.kids) # 1 THEN <<>>
    ELSE IF IsText(n.kids[1]) THEN <<n.kids[1].text>>
    ELSE IF IsComment(n.kids[1]) THEN <<n.kids[1].text>>
    ELSE TagString(n.kids[1])

\* HTMLCleaner._extract_title
_extract_title(d) ==
    LET title_tag == FindTag(d, "title")
    IN  IF title_tag # <<>> /\ TagString(title_tag[1]) # <<>>
           /\ TagString(title_tag[1])[1] # <<>>
        THEN Strip(TagString(title_tag[1])[1])
        ELSE S_untitled

HasHead(d) == \E i \in DOMAIN d.kids : d.kids[i].tag = "head"

\* self.soup.html.insert(0, head) when the document has no head
WithHead(d) ==
    IF HasHead(d) THEN d
    ELSE [d EXCEPT !.kids = <<Elem("head", NoAttrs, <<>>)>> \o d.kids]

\* the index of soup.head among the children of html
HeadIndex(d) == CHOOSE i \in DOMAIN d.kids :
                    /\ d.kids[i].tag = "head"
                    /\ \A j \in 1..(i - 1) : d.kids[j].tag # "head"

\* Pass 18: HTMLCleaner._add_missing_title
_add_missing_title(d, t) ==
    IF FindTag(d, "title") # <<>> THEN d
    ELSE LET e == WithHead(d)
         IN  [e EXCEPT !.kids[HeadIndex(e)].kids =
                 @ \o <<Elem("title", NoAttrs, <<TextNode(t)>>)>>]

\* Pass 19: HTMLCleaner._ensure_meta_charset
MetaCharset == Elem("meta", [charset |-> S_utf8], <<>>)

_ensure_meta_charset(d) ==
    IF HasHead(d)
    THEN LET head == d.kids[HeadIndex(d)]
         IN  IF \E m \in Range(Descendants(head)) :
                    m.tag = "meta" /\ Has(m, "charset")
             THEN d
             ELSE [d EXCEPT !.kids[HeadIndex(d)].kids = <<MetaCharset>> \o @]
    ELSE [d EXCEPT !.kids = <<Elem("head", NoAttrs, <<MetaCharset>>)>> \o d.kids]

\* Pass 20: HTMLCleaner._inject_custom_styles
RECURSIVE StylesOutsideHead(_, _)
StylesOutsideHead(n, parentTag) ==
    IF n.tag = "style" /\ parentTag # "head" THEN <<>>
    ELSE <<[n EXCEPT !.kids =
               SeqConcat([i \in 1..Len(n.kids) |->
                            StylesOutsideHead(n.kids[i], n.tag)])]>>

fonts_link == Elem("link", [rel |-> "stylesheet", href |-> S_fonts_href], <<>>)

style_tag == Elem("style", NoAttrs, <<TextNode(S_custom_css)>>)

_inject_custom_styles(d) ==
    LET e == WithHead(StylesOutsideHead(d, "[document]")[1])
    IN  [e EXCEPT !.kids[HeadIndex(e)].kids = @ \o <<fonts_link, style_tag>>]

-----------------------------------------------------------------------------
(* HTMLCleaner.clean: the passes in the order the method calls them *)

NumPasses == 20

\* the passes by the numbers of the written pass list, which has the
\* attribute sanitization as 11 and the vendor-macro removal as 12
PassInSpecOrder(k, d, t) ==
    CASE k = 1  -> _process_emojis(d)
      [] k = 2  -> _process_images(d)
      [] k = 3  -> _process_links(d)
      [] k = 4  -> _process_status_macros(d)
      [] k = 5  -> _process_expand_containers(d)
      [] k = 6  -> _process_decision_lists(d)
      [] k = 7  -> _convert_column_layouts(d)
      [] k = 8  -> _unwrap_table_wrappers(d)
      [] k = 9  -> _remove_unnecessary_sections(d)
      [] k = 10 -> _clean_metadata(d)
      [] k = 11 -> _clean_attributes_and_classes(d)
      [] k = 12 -> _remove_confluence_specific(d)
      [] k = 13 -> _clean_tables(d)
      [] k = 14 -> _standardize_headings(d)
      [] k = 15 -> _clean_lists(d)
      [] k = 16 -> _remove_empty_elements(d)
      [] k = 17 -> _cleanup_whitespace(d)
      [] k = 18 -> _add_missing_title(d, t)
      [] k = 19 -> _ensure_meta_charset(d)
      [] k = 20 -> _inject_custom_styles(d)

Pass(k, d, t) ==
    CASE k = 1  -> _process_emojis(d)
      [] k = 2  -> _process_images(d)
      [] k = 3  -> _process_links(d)
      [] k = 4  -> _process_status_macros(d)
      [] k = 5  -> _process_expand_containers(d)
      [] k = 6  -> _process_decision_lists(d)
      [] k = 7  -> _convert_column_layouts(d)
      [] k = 8  -> _unwrap_table_wrappers(d)
      [] k = 9  -> _remove_unnecessary_sections(d)
      [] k = 10 -> _clean_metadata(d)
      [] k = 11 -> _remove_confluence_specific(d)
      [] k = 12 -> _clean_attributes_and_classes(d)
      [] k = 13 -> _clean_tables(d)
      [] k = 14 -> _standardize_headings(d)
      [] k = 15 -> _clean_lists(d)
      [] k = 16 -> _remove_empty_elements(d)
      [] k = 17 -> _cleanup_whitespace(d)
      [] k = 18 -> _add_missing_title(d, t)
      [] k = 19 -> _ensure_meta_charset(d)
      [] k = 20 -> _inject_custom_styles(d)

\* a variant of the pipeline in which the errors of single images and single
\* layouts are not caught inside their pass
PassRaisesPerElement(k, d) ==
    \/ k = 11 /\ RemoveConfluenceRaises(d)
    \/ k = 2 /\ ImageErrors(d) > 0
    \/ k = 7 /\ LayoutErrors(d)

\* pass k raises out of clean(): only the vendor-macro removal can
PassRaises(k, d) == k = 11 /\ RemoveConfluenceRaises(d)

\* the messages pass k logs through its own except clause
PassLog(k, d) ==
    CASE k = 2 /\ ImageErrors(d) > 0 -> <<"Error processing image">>
      [] k = 7 /\ LayoutErrors(d)    -> <<"Error converting column layout">>
      [] OTHER -> <<>>

\* the tree after the passes k, k + 1, ..., or the tree at the raising pass
RECURSIVE CleanFrom(_, _, _)
CleanFrom(d, t, k) ==
    IF IsElem(d) /\ k > NumPasses THEN [tree |-> d, raised |-> FALSE]
    ELSE IF PassRaises(k, d) THEN [tree |-> d, raised |-> TRUE]
    ELSE CleanFrom(Pass(k, d, t), t, k + 1)

\* HTMLCleaner(html).clean() as a whole
Clean(d) == CleanFrom(d, _extract_title(d), 1)

-----------------------------------------------------------------------------
(* Serializing and parsing again: prettify() puts every tag and every      *)
(* stripped string on a line of its own and skips strings that are blank;  *)
(* the parser then reads the line breaks as text.  Text below pre is kept. *)

RECURSIVE MergeTexts(_)
MergeTexts(ns) ==
    IF Len(ns) < 2 THEN ns
    ELSE IF IsText(ns[1]) /\ IsText(ns[2])
         THEN MergeTexts(<<[ns[1] EXCEPT !.text = @ \o Tail(ns[2].text)]>>
                         \o SubSeq(ns, 3, Len(ns)))
         ELSE <<ns[1]>> \o MergeTexts(Tail(ns))

\* the serializer writes the charset of a meta element as the encoding of
\* the output (CharsetMetaAttributeValue), "utf-8" for a string
S_utf8_out == <<"u","t","f","-","8">>

SerializedAttrs(n) ==
    IF n.tag = "meta" /\ Has(n, "charset") THEN SetAttr(n, "charset", S_utf8_out).attrs
    ELSE n.attrs

RECURSIVE Reparse(_)
Reparse(n) ==
    IF n.tag = "pre" THEN [n EXCEPT !.nid = 0]
    ELSE LET Line(k) ==
                 IF IsText(k) /\ Strip(k.text) = <<>> THEN <<>>
                 ELSE IF IsText(k)
                      THEN <<TextNode(<<"\n">> \o Strip(k.text) \o <<"\n">>)>>
                      ELSE <<TextNode(<<"\n">>), Reparse(k), TextNode(<<"\n">>)>>
         IN  [n EXCEPT !.nid = 0, !.attrs = SerializedAttrs(n),
                       !.kids = MergeTexts(SeqConcat([i \in 1..Len(n.kids) |->
                                                        Line(n.kids[i])]))]

\* a tree up to whitespace: blank strings dropped, the others collapsed and
\* stripped, and no node identities
RECURSIVE Canon(_)
Canon(n) ==
    IF IsText(n) THEN [n EXCEPT !.nid = 0, !.text = Strip(CollapseWs(n.text))]
    ELSE LET kept == SelectSeq(n.kids, LAMBDA k : ~(IsText(k) /\ Strip(k.text) = <<>>))
         IN  [n EXCEPT !.nid = 0, !.kids = Strict([i \in 1..Len(kept) |-> Canon(kept[i])])]

-----------------------------------------------------------------------------
(* Input documents *)

RECURSIVE Size(_)
Size(n) == 1 + Len(Descendants(n))

\* the nodes of a tree numbered in document order, from k
RECURSIVE NumberNode(_, _)
RECURSIVE NumberSeq(_, _)
NumberNode(n, k) == [n EXCEPT !.nid = k, !.kids = NumberSeq(n.kids, k + 1)]
NumberSeq(ns, k) ==
    IF ns = <<>> THEN <<>>
    ELSE <<NumberNode(Head(ns), k)>> \o NumberSeq(Tail(ns), k + Size(Head(ns)))

T(str) == TextNode(str)
P(str) == Elem("p", NoAttrs, <<T(str)>>)

S_x == <<"x">>
S_created == <<"C","r","e","a","t","e","d"," ","b","y"," ","J","o","h","n"," ","D","o","e"," ","o","n"," ","2","0","2","3","-","1","2","-","2","8">>
S_png == <<"a",".","p","n","g">>

\* img elements: a relative src with a query, a data: reference, an absolute
\* URL with a query, a rooted path, a reference urlparse rejects
Img(src, cls) ==
    IF cls = <<>> THEN Elem("img", [src |-> src], <<>>)
    ELSE Elem("img", [src |-> src, class |-> cls], <<>>)

ImgRelative == Img(Src("", FALSE, FALSE, "images/a.png", "v=1", FALSE),
                   <<"confluence-embedded-image">>)
ImgData     == Img(Src("data", FALSE, FALSE, "image/png;base64,AAAA", "", FALSE), <<>>)
ImgHttp     == Img(Src("https", TRUE, TRUE, "a.png", "v=1", FALSE), <<>>)
ImgRooted   == Img(Src("", FALSE, TRUE, "a.png", "", FALSE), <<>>)
ImgBad      == Img(Src("http", TRUE, FALSE, "", "", TRUE), <<"image-center">>)

Images == {ImgRelative, ImgData, ImgHttp, ImgRooted, ImgBad}

\* span.status-macro with its class tokens in a given order
Status(cls) == Elem("span", [class |-> cls], <<T(<<" ","O","K"," ">>)>>)

SpecificStatus == (DOMAIN status_class_mapping) \ {"aui-lozenge"}

Statuses ==
    {Status(<<"status-macro">>), Status(<<"status-macro", "aui-lozenge">>)}
    \cup {Status(<<"status-macro", "aui-lozenge", c>>) : c \in SpecificStatus}
    \cup {Status(<<"status-macro", c, "aui-lozenge">>) : c \in SpecificStatus}
    \cup {Elem("p", NoAttrs, <<Status(<<c, "status-macro">>)>>) : c \in SpecificStatus}

\* div.columnLayout.<variant> with n cells; the first cell has an innerCell
Cell(inner, str) ==
    Elem("div", [class |-> <<"cell", "normal">>],
         IF inner THEN <<Elem("div", [class |-> <<"innerCell">>], <<P(str)>>)>>
         ELSE <<P(str)>>)

Layout(variant, n, dataLayout) ==
    Elem("div",
         IF dataLayout = "" THEN [class |-> <<"columnLayout", variant>>]
         ELSE ("data-layout" :> dataLayout) @@ [class |-> <<"columnLayout", variant>>],
         Strict([i \in 1..n |-> Cell(i = 1, <<"c">>)]))

MaxCells == 3

Layouts ==
    {Layout(layout_types[v], n, "") : v \in DOMAIN layout_types, n \in 1..(MaxCells + 1)}
    \cup {Layout("two-equal", 2, "two-equal"), Layout("two-equal", 2, "single")}

Metadata == Elem("div", [class |-> <<"page-metadata">>], <<T(S_created)>>)

Table(cls) ==
    Elem("table", (IF cls = <<>> THEN NoAttrs ELSE [class |-> cls]) @@ [border |-> "1"],
         <<Elem("tr", NoAttrs,
                <<Elem("td", [class |-> <<"confluenceTd">>, style |-> S_x],
                       <<T(S_x)>>)>>)>>)

Tables == {Table(<<>>), Table(<<"confluenceTable">>),
           Table(<<"confluenceTable", "wide">>)}

\* elements of other tags with vendor classes only, or with one class more
Vendor(tag, cls) == Elem(tag, [class |-> cls, id |-> "main-content"], <<P(S_x)>>)

Vendors ==
    {Vendor(tag, cls) : tag \in {"div", "section", "ul"},
                        cls \in {<<"wiki-content">>, <<"wiki-content", "group">>,
                                 <<"panel", "note">>}}

\* a table of contents inside a table of contents
TocInToc ==
    Elem("div", [class |-> <<"toc-macro">>],
         <<Elem("ul", [class |-> <<"toc-macro">>], <<T(S_x)>>)>>)

Toc == Elem("div", [class |-> <<"toc-macro">>],
            <<Elem("ul", [class |-> <<"toc-indentation">>], <<T(S_x)>>)>>)

\* a section with an image and a layout that raise, each before one that
\* does not
Mixed ==
    Elem("div", NoAttrs,
         <<ImgBad, ImgRelative, Layout("two-equal", 3, ""),
           Layout("three-equal", 3, "")>>)

\* elements the empty-element pruning looks at: a parent that holds only
\* empty elements, a div that holds an image, a div with empty and non-empty
\* children
EmptyNest ==
    Elem("div", NoAttrs,
         <<Elem("p", NoAttrs, <<T(<<" ">>)>>), Elem("span", NoAttrs, <<>>)>>)

DivImg == Elem("div", NoAttrs, <<ImgRooted>>)

HalfEmpty ==
    Elem("div", NoAttrs,
         <<Elem("p", NoAttrs, <<>>), Elem("b", NoAttrs, <<T(S_x)>>),
           Elem("p", NoAttrs, <<Elem("br", NoAttrs, <<>>)>>),
           Elem("em", NoAttrs, <<Elem("i", NoAttrs, <<T(<<" ">>)>>)>>)>>)

\* the sections the structural pruning removes, with a script or a comment
\* inside some of them
Footers ==
    {Elem("div", [id |-> "footer"], <<P(S_x)>>),
     Elem("div", [id |-> "footer-logo"], <<Elem("script", NoAttrs, <<T(S_x)>>)>>),
     Elem("div", [class |-> <<"footer-body">>], <<T(S_x)>>),
     Elem("section", [class |-> <<"footer-body", "wide">>], <<CommentNode(S_x)>>),
     Elem("div", [role |-> "contentinfo"], <<P(S_x)>>),
     Elem("div", [id |-> "breadcrumb-section"],
          <<Elem("span", NoAttrs, <<Elem("a", NoAttrs, <<T(S_x)>>)>>)>>),
     Elem("div", NoAttrs,
          <<Elem("div", [class |-> <<"page-metadata">>],
                 <<Elem("div", [id |-> "footer"], <<T(S_x)>>)>>),
            CommentNode(S_x)>>),
     Elem("div", [id |-> "keep"],
          <<Elem("div", [id |-> "breadcrumb-section"], <<T(S_x)>>),
            Elem("div", [id |-> "footer"], <<Elem("script", NoAttrs, <<T(S_x)>>)>>),
            Elem("div", [id |-> "footer-logo"], <<>>),
            Elem("div", [class |-> <<"footer-body">>], <<T(S_x)>>),
            Elem("section", [class |-> <<"footer-body">>], <<T(S_x)>>),
            Elem("div", [role |-> "contentinfo"], <<CommentNode(S_x)>>),
            Elem("div", [class |-> <<"page-metadata">>], <<T(S_x)>>),
            Elem("script", NoAttrs, <<T(S_x)>>),
            CommentNode(S_x),
            P(S_x)>>)}

\* elements the attribute sanitization changes, and vendor macros
Sanitized ==
    {Elem("p", ("data-test" :> S_x) @@ [class |-> <<"wiki-content", "note">>, id |-> "expander-1"],
          <<T(S_x)>>),
     Elem("p", [class |-> <<>>, id |-> "page", style |-> S_x], <<T(S_x)>>),
     Elem("div", [class |-> <<"confluence-information-macro", "note">>], <<P(S_x)>>),
     Elem("div", ("data-macro-name" :> S_x) @@ [id |-> "keep"], <<P(S_x)>>)}

\* table wrappers: around a table alone, around a table with a paragraph
\* before and after it, around a paragraph alone, and around a div that
\* holds the table
Wrappers ==
    {Elem("div", [class |-> <<"table-wrap">>], <<Table(<<>>)>>),
     Elem("div", [class |-> <<"table-wrap">>], <<P(S_x), Table(<<>>), P(S_x)>>),
     Elem("div", [class |-> <<"table-wrap">>], <<P(S_x)>>),
     Elem("div", [class |-> <<"table-wrap">>],
          <<Elem("div", NoAttrs, <<Table(<<>>)>>), T(S_x)>>)}

\* preformatted and code contexts: a span inside a pre, a code element
\* inside a paragraph, and a b inside a code element
Preformatted ==
    {Elem("pre", NoAttrs, <<Elem("span", NoAttrs, <<T(<<"x", " ", " ", "x">>)>>)>>),
     Elem("p", NoAttrs, <<Elem("code", NoAttrs, <<T(<<"x", " ", " ", "x">>)>>)>>),
     Elem("p", NoAttrs,
          <<Elem("code", NoAttrs,
                 <<Elem("b", NoAttrs, <<T(<<"x", " ", " ", "x">>)>>)>>)>>)}

\* headings: with attributes and text around an inline element, and with
\* one text with spaces around it
Headings ==
    {Elem("h2", [id |-> "h", class |-> <<"note">>],
          <<T(<<"a", " ">>), Elem("b", NoAttrs, <<T(<<"b">>)>>)>>),
     Elem("h3", [style |-> S_x], <<T(<<" ", "a", " ", "b", " ">>)>>)}

\* a table with presentational attributes and cells with attributes in and
\* out of the allow-list
RichTable ==
    Elem("table", [border |-> "1", cellspacing |-> "0", cellpadding |-> "0",
                   style |-> S_x, class |-> <<"wide">>],
         <<Elem("tr", NoAttrs,
                <<Elem("th", [colspan |-> "2", align |-> "left",
                              class |-> <<"confluenceTh">>], <<T(S_x)>>),
                  Elem("td", [rowspan |-> "2", style |-> S_x, width |-> "10",
                              class |-> <<"confluenceTd", "note">>], <<T(S_x)>>)>>)>>)

\* an image that has an alt text, a title and attributes outside the allow-list
ImgAlt ==
    Elem("img", [src |-> Src("", FALSE, TRUE, "a.png", "", FALSE), alt |-> S_x,
                 title |-> S_x, loading |-> "lazy", class |-> <<"note">>], <<>>)

\* a table that is a macro's body
MacroTable ==
    Elem("table", ("data-macro-name" :> S_x) @@ [class |-> <<"wide">>],
         <<Elem("tr", NoAttrs,
                <<Elem("td", [style |-> S_x, align |-> "left"], <<T(S_x)>>)>>)>>)

\* paragraphs with the footer phrase: alone, followed by other text, and
\* in the middle of a sentence with the phrase in an inline element
FooterTexts ==
    {P(S_footer_phrase),
     P(S_footer_phrase \o <<" ", "o", "n", " ", "x">>),
     Elem("p", NoAttrs, <<T(<<"x", " ">>),
                          Elem("b", NoAttrs, <<T(S_footer_phrase)>>),
                          T(<<" ", "x">>)>>)}

Others ==
    {P(S_x), TocInToc, Toc, Metadata, Mixed, EmptyNest, DivImg, HalfEmpty}
    \cup FooterTexts \cup Preformatted \cup Headings \cup {RichTable, MacroTable, ImgAlt}
    \cup Footers \cup Sanitized \cup Wrappers \cup
    {
     Elem("base_url", NoAttrs, <<>>),
     CommentNode(S_x),
     Elem("script", NoAttrs, <<T(S_x)>>),
     Elem("div", NoAttrs, <<T(<<" ">>)>>),
     Elem("h1", [id |-> "title-heading"], <<Elem("span", NoAttrs, <<T(S_x)>>)>>),
     Elem("pre", NoAttrs, <<T(<<"x"," "," ","x">>)>>)}

\* the blocks a body is made of: every block alone, and the blocks of Core
\* in sequences of up to MaxBlocks
Palette == Images \cup Statuses \cup Layouts \cup Tables \cup Vendors \cup Others

Core == {P(S_x), ImgBad, ImgRelative, Layout("two-equal", 3, ""),
         Layout("three-equal", 3, ""), Metadata, Table(<<"confluenceTable">>),
         Elem("base_url", NoAttrs, <<>>)}

MaxBlocks == 2

RECURSIVE SeqsUpTo(_, _)
SeqsUpTo(S, n) ==
    IF n = 0 THEN {<<>>}
    ELSE SeqsUpTo(S, n - 1)
         \cup {<<x>> \o s : x \in S, s \in {q \in SeqsUpTo(S, n - 1) : Len(q) = n - 1}}

Bodies == {<<b>> : b \in Palette} \cup SeqsUpTo(Core, MaxBlocks)

Heads == {<<>>,
          <<Elem("head", NoAttrs, <<Elem("title", NoAttrs, <<T(<<" ","T"," ">>)>>)>>)>>}

S_latin1 == <<"l","a","t","i","n","1">>

\* heads with a blank title, an empty title, no title, and with a charset
\* declaration that is not UTF-8 or not the first child
OtherHeads ==
    {<<Elem("head", NoAttrs, <<Elem("title", NoAttrs, <<T(<<" ">>)>>)>>)>>,
     <<Elem("head", NoAttrs, <<Elem("title", NoAttrs, <<>>)>>)>>,
     <<Elem("head", NoAttrs, <<>>)>>,
     <<Elem("head", NoAttrs, <<Elem("meta", [charset |-> S_latin1], <<>>)>>)>>,
     <<Elem("head", NoAttrs, <<Elem("meta", [charset |-> S_utf8], <<>>),
                               Elem("title", NoAttrs, <<T(S_x)>>)>>)>>,
     <<Elem("head", NoAttrs, <<Elem("title", NoAttrs, <<T(S_x)>>),
                               Elem("meta", [charset |-> S_utf8], <<>>)>>)>>}

\* the tree the parser hands to the cleaner: html, an optional head, a body
Documents ==
    {NumberNode(Elem("html", NoAttrs, h \o <<Elem("body", NoAttrs, b)>>), 1) :
        h \in Heads, b \in Bodies}
    \cup {NumberNode(Elem("html", NoAttrs, h \o <<Elem("body", NoAttrs, b)>>), 1) :
             h \in OtherHeads, b \in {<<>>, <<P(S_x)>>}}

-----------------------------------------------------------------------------
(* The cleaner as a state machine: one step per pass of clean() *)

IdleCrumbs == crumbDoc = <<>> /\ crumbOut = <<>>

IdleTree ==
    root = <<>> /\ added = <<>> /\ show_filenames = FALSE /\ exported = <<>>

IdleBatch ==
    /\ files = <<>> /\ todo = <<>> /\ stats = <<>> /\ outFiles = <<>>
    /\ cur = <<>> /\ bpc = "idle" /\ outDirs = {} /\ create_docx = FALSE
    /\ space_name = <<>>

\* HTMLCleaner.__init__ on a parsed document
InitClean ==
    /\ input \in Documents
    /\ doc = input
    /\ title = _extract_title(input)
    /\ pc = 0 /\ outcome = "running" /\ log = <<>>
    /\ run = 1 /\ firstOut = <<>>
    /\ env = Env0

Init == InitClean /\ IdleCrumbs /\ IdleBatch /\ IdleTree

RunPass(k) ==
    /\ outcome = "running" /\ pc = k - 1
    /\ IF PassRaises(k, doc)
       THEN /\ outcome' = "raised"
            /\ log' = log \o <<"Error cleaning HTML">>
            /\ UNCHANGED <<doc, pc>>
       ELSE /\ doc' = Pass(k, doc, title)
            /\ pc' = k
            /\ log' = log \o PassLog(k, doc)
            /\ UNCHANGED outcome
    /\ UNCHANGED <<input, title, run, firstOut, env>>
    /\ UNCHANGED crumbVars /\ UNCHANGED batchVars /\ UNCHANGED treeVars

ProcessEmojis == RunPass(1)
ProcessImages == RunPass(2)
ProcessLinks == RunPass(3)
ProcessStatusMacros == RunPass(4)
ProcessExpandContainers == RunPass(5)
ProcessDecisionLists == RunPass(6)
ConvertColumnLayouts == RunPass(7)
UnwrapTableWrappers == RunPass(8)
RemoveUnnecessarySections == RunPass(9)
CleanMetadata == RunPass(10)
RemoveConfluenceSpecific == RunPass(11)
CleanAttributesAndClasses == RunPass(12)
CleanTables == RunPass(13)
StandardizeHeadings == RunPass(14)
CleanLists == RunPass(15)
RemoveEmptyElements == RunPass(16)
CleanupWhitespace == RunPass(17)
AddMissingTitle == RunPass(18)
EnsureMetaCharset == RunPass(19)
InjectCustomStyles == RunPass(20)

\* return "<!DOCTYPE html>\n" + str(self.soup.html.prettify(...))
Return ==
    /\ outcome = "running" /\ pc = NumPasses
    /\ outcome' = "returned"
    /\ firstOut' = IF run = 1 THEN doc ELSE firstOut
    /\ UNCHANGED <<doc, input, title, pc, log, run, env>>
    /\ UNCHANGED crumbVars /\ UNCHANGED batchVars /\ UNCHANGED treeVars

\* a second cleaner is given the output of the first
CleanAgain ==
    /\ outcome = "returned" /\ run = 1
    /\ input' = Reparse(doc)
    /\ doc' = input'
    /\ title' = _extract_title(input')
    /\ pc' = 0 /\ outcome' = "running" /\ log' = <<>>
    /\ run' = 2
    /\ UNCHANGED <<firstOut, env>>
    /\ UNCHANGED crumbVars /\ UNCHANGED batchVars /\ UNCHANGED treeVars

\* another cleaner is given the document of the first one, in a process
\* started from another working directory or with another --input-dir
CleanSameInput ==
    /\ outcome = "returned" /\ run = 1
    /\ env' \in Envs
    /\ doc' = input
    /\ title' = _extract_title(input)
    /\ pc' = 0 /\ outcome' = "running" /\ log' = <<>>
    /\ run' = 3
    /\ UNCHANGED <<input, firstOut>>
    /\ UNCHANGED crumbVars /\ UNCHANGED batchVars /\ UNCHANGED treeVars

Next ==
    \/ ProcessEmojis \/ ProcessImages \/ ProcessLinks \/ ProcessStatusMacros
    \/ ProcessExpandContainers \/ ProcessDecisionLists \/ ConvertColumnLayouts
    \/ UnwrapTableWrappers \/ RemoveUnnecessarySections \/ CleanMetadata
    \/ RemoveConfluenceSpecific \/ CleanAttributesAndClasses \/ CleanTables
    \/ StandardizeHeadings \/ CleanLists \/ RemoveEmptyElements
    \/ CleanupWhitespace \/ AddMissingTitle \/ EnsureMetaCharset
    \/ InjectCustomStyles \/ Return \/ CleanAgain \/ CleanSameInput

Spec == Init /\ [][Next]_vars

-----------------------------------------------------------------------------
(* Properties of the cleaner, checked under Spec *)

\* clean() of the first run has returned
Cleaned == run = 1 /\ outcome = "returned"

\* the node of the tree d that has identity k, as a sequence of at most one node
NodeById(d, k) == SelectSeq(Nodes(d), LAMBDA m : m.nid = k)

Body(d) == FindTag(d, "body")[1]

RECURSIVE SumSeq(_)
SumSeq(s) == IF s = <<>> THEN 0 ELSE Head(s) + SumSeq(Tail(s))

\* C1: clean is idempotent: cleaning the output of clean(x) gives a document
\* equal to clean(x) up to whitespace, with the same elements, attributes,
\* class tokens and injected link and style elements
C1_Idempotent ==
    (run = 2 /\ outcome = "returned") => Canon(doc) = Canon(firstOut)

\* all the class tokens of an element are in the vendor-class denylist
VendorOnly(n) ==
    /\ IsElem(n) /\ Has(n, "class") /\ Classes(n) # <<>>
    /\ Range(Classes(n)) \subseteq confluence_classes

\* C2 as stated: every element of the input with vendor classes only that is
\* still in the output of clean() has no class attribute there, whatever its
\* tag, tables included
C2_NoClassLeft ==
    Cleaned =>
        \A n \in Range(Nodes(input)) :
            VendorOnly(n) =>
                \A m \in Range(NodeById(doc, n.nid)) : ~Has(m, "class")

\* C2 amended: every element of the input with vendor classes only that is
\* still in the output of clean() has no class attribute there, except a
\* table, whose class attribute is exactly custom-table
C2_NoClassLeftButOnTables ==
    Cleaned =>
        \A n \in Range(Nodes(input)) :
            VendorOnly(n) =>
                \A m \in Range(NodeById(doc, n.nid)) :
                    IF m.tag = "table" THEN Classes(m) = <<"custom-table">>
                    ELSE ~Has(m, "class")

\* a cleaned document that keeps a table and another element which both had
\* vendor classes only
C2_Witness ==
    /\ Cleaned
    /\ \E n \in Range(Nodes(input)) :
          VendorOnly(n) /\ n.tag = "table" /\ NodeById(doc, n.nid) # <<>>
    /\ \E n \in Range(Nodes(input)) :
          VendorOnly(n) /\ n.tag # "table" /\ NodeById(doc, n.nid) # <<>>

\* the number of columns a layout variant stands for
ExpectedColumns(variant) ==
    IF variant \in {"three-equal", "three-with-sidebars"} THEN 3 ELSE 2

\* the percentage a width class is assigned for, by width_class_mapping
WidthPercent(c) ==
    LET w == CHOOSE x \in DOMAIN width_class_mapping : width_class_mapping[x] = c
    IN  CASE w = "25%" -> 25 [] w = "33%" -> 33 [] w = "50%" -> 50
          [] w = "67%" -> 67 [] w = "75%" -> 75 [] w = "100%" -> 100

\* a block of the body that is a layout of one of the five variants, named by
\* its class, with as many cells as the variant has columns
WellFormedLayout(n) ==
    /\ IsLayout(n) /\ ~Has(n, "data-layout")
    /\ Len(Cells(n)) = ExpectedColumns(LayoutType(n))

\* C3: for each of the five layout variants the conversion gives a table with
\* one row, as many cells as the variant has columns, and width classes whose
\* percentages sum to 100
C3_LayoutWidths ==
    (run = 1 /\ pc = 7 /\ Len(Body(doc).kids) = Len(Body(input).kids)) =>
        \A i \in DOMAIN Body(input).kids :
            WellFormedLayout(Body(input).kids[i]) =>
                LET table == Body(doc).kids[i]
                    cells == table.kids[1].kids
                IN  /\ table.tag = "table" /\ Len(table.kids) = 1
                    /\ table.kids[1].tag = "tr"
                    /\ Len(cells) = ExpectedColumns(LayoutType(Body(input).kids[i]))
                    /\ \A j \in DOMAIN cells :
                          cells[j].tag = "td" /\ Len(Classes(cells[j])) = 1
                    /\ SumSeq([j \in DOMAIN cells |->
                                 WidthPercent(Classes(cells[j])[1])]) = 100

S_criado == <<"C","r","i","a","d","o"," ","p","o","r"," ","J","o","h","n"," ","D","o","e"," ","e","m"," ","2","0","2","3","-","1","2","-","2","8">>

\* the document has a div.page-metadata holding "Created by John Doe on 2023-12-28"
HasMetadata(d) ==
    \E n \in Range(Nodes(d)) :
        /\ n.tag = "div" /\ HasClass(n, "page-metadata")
        /\ Contains(GetText(n, FALSE), S_created)

\* C4: the text "Created by John Doe on 2023-12-28" of a metadata container
\* reads "Criado por John Doe em 2023-12-28" in the output of clean()
C4_MetadataTranslated ==
    (Cleaned /\ HasMetadata(input)) => Contains(GetText(doc, FALSE), S_criado)

\* a reference with no scheme that is not rooted
RelativeSrc(s) == s.scheme = "" /\ ~s.auth /\ ~s.rooted

\* C5: in the output of clean() the src of an image that was relative is
\* absolute or was resolved against the base, and a src that had a scheme
\* (http, https, file, data) or was rooted is the reference it was
C5_ImageSources ==
    Cleaned =>
        \A n \in Range(Nodes(input)) :
            (n.tag = "img" /\ Has(n, "src")) =>
                \A m \in Range(NodeById(doc, n.nid)) :
                    /\ Has(m, "src")
                    /\ IF RelativeSrc(n.attrs["src"])
                       THEN \/ m.attrs["src"].rooted
                            \/ m.attrs["src"].scheme # ""
                            \/ m.attrs["src"].via # "orig"
                       ELSE m.attrs["src"] = n.attrs["src"]

\* the colour of the specific badge class among the tokens, gray with none
ExpectedStatus(classes) ==
    LET specific == SelectSeq(classes, LAMBDA c : c \in SpecificStatus)
    IN  IF specific = <<>> THEN "status-gray"
        ELSE status_class_mapping[Head(specific)]

\* C6: the status pass replaces every span.status-macro by a strong element
\* whose single class is the colour of the span's specific badge class,
\* whatever the order of the tokens, and gray only with no specific class
C6_StatusColour ==
    (run = 1 /\ pc = 4) =>
        LET spans == SelectSeq(Nodes(input),
                               LAMBDA n : n.tag = "span" /\ HasClass(n, "status-macro"))
            strongs == SelectSeq(Nodes(doc), LAMBDA n : n.tag = "strong")
        IN  /\ Len(strongs) = Len(spans)
            /\ \A i \in DOMAIN spans :
                  Classes(strongs[i]) = <<ExpectedStatus(Classes(spans[i]))>>

\* the log holds an error of a single image or of a single layout
ElementErrorLogged ==
    \E i \in DOMAIN log :
        log[i] \in {"Error processing image", "Error converting column layout"}

\* C10: an error on one image or on one layout is caught inside its pass and
\* logged: clean() never stops at the image pass or at the layout pass, after
\* the image pass every image is normalized and every image that raised
\* nothing has its relative src resolved, after the layout pass every layout
\* that raised nothing is converted, and the later passes run to the return
C10_ElementErrorsCaught ==
    run = 1 =>
        /\ outcome = "raised" => pc = 10
        /\ pc = 2 =>
              \A n \in Range(Nodes(input)) :
                  n.tag = "img" =>
                      \E m \in Range(NodeById(doc, n.nid)) :
                          /\ DOMAIN m.attrs \subseteq allowed_attrs
                          /\ Has(m, "alt")
                          /\ (/\ ~ImageRaises(n, BaseUrl(input))
                              /\ SrcNonEmpty(n.attrs["src"])
                              /\ RelativeSrc(n.attrs["src"]))
                                 => m.attrs["src"].via # "orig"
        /\ pc = 7 =>
              \A n \in Range(Nodes(doc)) : IsLayout(n) => LayoutRaises(n)
        /\ (pc \in {2, 7} /\ ElementErrorLogged) =>
              LET c == Clean(input)
              IN  c.raised => RemoveConfluenceRaises(c.tree)

\* clean() has returned a document in which one image and one layout raised
\* and another image and another layout were processed
C10_Witness ==
    /\ Cleaned
    /\ \E i, j \in DOMAIN log :
          log[i] = "Error processing image" /\ log[j] = "Error converting column layout"
    /\ \E n \in Range(Nodes(input)) :
          /\ n.tag = "img" /\ ~ImageRaises(n, BaseUrl(input))
          /\ \E m \in Range(NodeById(doc, n.nid)) : m.attrs["src"].via = "cwd"
    /\ \E n \in Range(Nodes(input)) : IsLayout(n) /\ ~LayoutRaises(n)
    /\ \E m \in Range(Nodes(doc)) :
          m.tag = "table" /\ m.nid = 0 /\ Len(m.kids[1].kids) = 3

-----------------------------------------------------------------------------
(* The breadcrumb extractors: DocumentTreeBuilder.extract_breadcrumbs and    *)
(* FileProcessor._extract_breadcrumbs                                        *)

\* soup.find('div', id='breadcrumb-section'), as a sequence of at most one node
BreadcrumbSection(d) ==
    LET hits == SelectSeq(Nodes(d), LAMBDA n : n.tag = "div"
                                       /\ Get(n, "id", "") = "breadcrumb-section")
    IN  IF hits = <<>> THEN <<>> ELSE <<Head(hits)>>

\* a variant of the tree builder's extractor that does not trim the texts
extract_breadcrumbs_untrimmed(d) ==
    LET breadcrumb_div == BreadcrumbSection(d)
    IN  IF breadcrumb_div = <<>> THEN [breadcrumbs |-> <<>>, title |-> _extract_title(d)]
        ELSE LET links == SelectSeq(Descendants(breadcrumb_div[1]),
                                    LAMBDA n : n.tag = "a")
                 texts == Strict([i \in DOMAIN links |-> GetText(links[i], FALSE)])
             IN  [breadcrumbs |-> SelectSeq(texts, LAMBDA t : Strip(t) # <<>>),
                  title |-> _extract_title(d)]

\* DocumentTreeBuilder.extract_breadcrumbs on the parsed file: the pair of
\* the breadcrumbs and cleaner.title
extract_breadcrumbs(d) ==
    LET breadcrumb_div == BreadcrumbSection(d)
    IN  IF breadcrumb_div = <<>> THEN [breadcrumbs |-> <<>>, title |-> _extract_title(d)]
        ELSE LET links == SelectSeq(Descendants(breadcrumb_div[1]),
                                    LAMBDA n : n.tag = "a")
                 texts == Strict([i \in DOMAIN links |->
                                    Strip(GetText(links[i], FALSE))])
             IN  [breadcrumbs |-> SelectSeq(texts, LAMBDA t : t # <<>>),
                  title |-> _extract_title(d)]

S_untitled_name == <<"u","n","t","i","t","l","e","d">>

\* the characters of the class [<>:"/\|?*]
InvalidChars == {"<", ">", ":", "\"", "/", "\\", "|", "?", "*"}

\* re.sub(r'\s+', '-', s)
RECURSIVE HyphenateWs(_)
HyphenateWs(s) ==
    IF s = <<>> THEN <<>>
    ELSE IF Head(s) \in Whitespace
         THEN <<"-">> \o HyphenateWs(LStrip(s))
         ELSE <<Head(s)>> \o HyphenateWs(Tail(s))

\* s.strip('-')
RECURSIVE LStripHyphens(_)
LStripHyphens(s) ==
    IF s # <<>> /\ Head(s) = "-" THEN LStripHyphens(Tail(s)) ELSE s

RECURSIVE RStripHyphens(_)
RStripHyphens(s) ==
    IF s # <<>> /\ s[Len(s)] = "-" THEN RStripHyphens(SubSeq(s, 1, Len(s) - 1)) ELSE s

\* FileProcessor._sanitize_filename
_sanitize_filename(filename) ==
    IF filename = <<>> THEN S_untitled_name
    ELSE LET removed == SelectSeq(filename, LAMBDA c : c \notin InvalidChars)
             cleaned == RStripHyphens(LStripHyphens(HyphenateWs(removed)))
         IN  IF cleaned = <<>> THEN S_untitled_name ELSE cleaned

\* FileProcessor._extract_breadcrumbs: for every span of the section, the
\* sanitized string of the first anchor below it when that anchor has a
\* single string
_extract_breadcrumbs(d) ==
    LET breadcrumb_section == BreadcrumbSection(d)
        Crumb(span) ==
            LET link == FindTag(span, "a")
            IN  IF link # <<>> /\ TagString(link[1]) # <<>>
                THEN <<_sanitize_filename(Strip(TagString(link[1])[1]))>>
                ELSE <<>>
    IN  IF breadcrumb_section = <<>> THEN <<>>
        ELSE LET spans == SelectSeq(Descendants(breadcrumb_section[1]),
                                    LAMBDA n : n.tag = "span")
             IN  SeqConcat([i \in DOMAIN spans |-> Crumb(spans[i])])

-----------------------------------------------------------------------------
(* Documents with a breadcrumb section *)

Anchor(kids) == Elem("a", NoAttrs, kids)
Span(kids) == Elem("span", NoAttrs, kids)
Li(kids) == Elem("li", NoAttrs, kids)

CrumbTexts ==
    {<<"S">>, <<"P">>, <<" ","S"," ">>, <<" ">>, <<"A"," ","B">>, <<"A","/","B">>}

\* the entries of a trail: the exported form li > span > a with several
\* texts, and the forms that differ from it
CrumbItems ==
    {Li(<<Span(<<Anchor(<<T(t)>>)>>)>>) : t \in CrumbTexts}
    \cup {Li(<<Span(<<Anchor(<<>>)>>)>>),
          Li(<<Anchor(<<T(<<"S">>)>>)>>),
          Li(<<Span(<<Anchor(<<T(<<"S">>)>>), Anchor(<<T(<<"P">>)>>)>>)>>),
          Li(<<Span(<<Span(<<Anchor(<<T(<<"S">>)>>)>>)>>)>>),
          Li(<<Span(<<Anchor(<<T(<<"A">>), Elem("b", NoAttrs, <<T(<<"B">>)>>)>>)>>)>>),
          Li(<<Span(<<Anchor(<<Elem("b", NoAttrs, <<T(<<"S">>)>>)>>)>>)>>),
          Li(<<Span(<<T(<<"x">>)>>)>>)}

MaxCrumbs == 2

Trail(items) ==
    Elem("div", [id |-> "breadcrumb-section"],
         <<Elem("ol", [id |-> "breadcrumbs"], items)>>)

\* parsed files: with a trail of up to MaxCrumbs entries, or with none
CrumbDocuments ==
    {NumberNode(Elem("html", NoAttrs,
                     <<Elem("body", NoAttrs, <<Trail(items), P(S_x)>>)>>), 1) :
        items \in SeqsUpTo(CrumbItems, MaxCrumbs)}
    \cup {NumberNode(Elem("html", NoAttrs, <<Elem("body", NoAttrs, <<P(S_x)>>)>>), 1)}

-----------------------------------------------------------------------------
(* The two extractors applied to a parsed file *)

IdleClean ==
    /\ doc = <<>> /\ input = <<>> /\ title = <<>>
    /\ pc = 0 /\ outcome = "idle" /\ log = <<>> /\ run = 0 /\ firstOut = <<>>
    /\ env = Env0

InitCrumbs ==
    /\ crumbDoc \in CrumbDocuments
    /\ crumbOut = [called |-> {}, tree |-> <<>>, organizer |-> <<>>]
    /\ IdleClean /\ IdleBatch /\ IdleTree

TreeBuilderExtract ==
    /\ crumbDoc # <<>> /\ "tree" \notin crumbOut.called
    /\ crumbOut' = [crumbOut EXCEPT !.called = @ \cup {"tree"},
                                    !.tree = extract_breadcrumbs(crumbDoc).breadcrumbs]
    /\ UNCHANGED crumbDoc /\ UNCHANGED cleanVars /\ UNCHANGED batchVars
    /\ UNCHANGED treeVars

FileOrganizerExtract ==
    /\ crumbDoc # <<>> /\ "organizer" \notin crumbOut.called
    /\ crumbOut' = [crumbOut EXCEPT !.called = @ \cup {"organizer"},
                                    !.organizer = _extract_breadcrumbs(crumbDoc)]
    /\ UNCHANGED crumbDoc /\ UNCHANGED cleanVars /\ UNCHANGED batchVars
    /\ UNCHANGED treeVars

NextCrumbs == TreeBuilderExtract \/ FileOrganizerExtract

CrumbSpec == InitCrumbs /\ [][NextCrumbs]_vars

-----------------------------------------------------------------------------
(* Properties of the breadcrumb extractors, checked under CrumbSpec *)

\* the trimmed text of every anchor at or below n whose trimmed text is not
\* empty, in document order
RECURSIVE AnchorTexts(_)
AnchorTexts(n) ==
    LET below == SeqConcat([i \in 1..Len(n.kids) |-> AnchorTexts(n.kids[i])])
        text == Strip(GetText(n, FALSE))
    IN  IF n.tag = "a" /\ text # <<>> THEN <<text>> \o below ELSE below

\* the list the claim describes: empty without the container
TrimmedAnchorTexts(d) ==
    IF \E n \in Range(Nodes(d)) : n.tag = "div" /\ Get(n, "id", "") = "breadcrumb-section"
    THEN AnchorTexts(BreadcrumbSection(d)[1])
    ELSE <<>>

\* a text that is not empty and that a file name can hold as it is
FilenameSafe(s) ==
    /\ s # <<>> /\ s[1] # "-" /\ s[Len(s)] # "-"
    /\ \A i \in DOMAIN s : s[i] \notin InvalidChars \cup Whitespace

\* a trail in the exported form: as many spans as anchors, every span holds
\* one anchor and nothing else, every anchor holds one text whose trimmed
\* form is file-name safe
PlainTrail(d) ==
    LET below == Descendants(BreadcrumbSection(d)[1])
        spans == SelectSeq(below, LAMBDA n : n.tag = "span")
        links == SelectSeq(below, LAMBDA n : n.tag = "a")
    IN  /\ Len(spans) = Len(links)
        /\ \A i \in DOMAIN spans :
              Len(spans[i].kids) = 1 /\ spans[i].kids[1].tag = "a"
        /\ \A i \in DOMAIN links :
              /\ Len(links[i].kids) = 1 /\ IsText(links[i].kids[1])
              /\ FilenameSafe(Strip(links[i].kids[1].text))

\* the spans of the section whose first anchor holds a single string
SpansWithString(d) ==
    SelectSeq(Descendants(BreadcrumbSection(d)[1]),
              LAMBDA n : /\ n.tag = "span"
                         /\ \E i \in DOMAIN Descendants(n) :
                               /\ Descendants(n)[i].tag = "a"
                               /\ \A j \in 1..(i - 1) : Descendants(n)[j].tag # "a"
                               /\ TagString(Descendants(n)[i]) # <<>>)

\* C7 as stated: each of the two extractors returns exactly the trimmed text
\* of every anchor inside div#breadcrumb-section whose trimmed text is not
\* empty, one entry per anchor, in document order, and the empty list when
\* the container is absent
C7_BothExtractorsExact ==
    /\ "tree" \in crumbOut.called => crumbOut.tree = TrimmedAnchorTexts(crumbDoc)
    /\ "organizer" \in crumbOut.called =>
          crumbOut.organizer = TrimmedAnchorTexts(crumbDoc)

\* what the code does satisfy of C7: the tree builder's extractor returns
\* exactly those trimmed texts; the file organizer's extractor returns the
\* empty list when the container is absent, else one name that is not empty
\* per span whose first anchor holds a single string (a blank anchor text
\* gives "untitled"), and the same list as the tree builder's only when the
\* trail is in the exported form with file-name safe texts
C7_TreeBuilderExact ==
    /\ "tree" \in crumbOut.called => crumbOut.tree = TrimmedAnchorTexts(crumbDoc)
    /\ "organizer" \in crumbOut.called =>
          IF BreadcrumbSection(crumbDoc) = <<>> THEN crumbOut.organizer = <<>>
          ELSE /\ Len(crumbOut.organizer) = Len(SpansWithString(crumbDoc))
               /\ \A i \in DOMAIN crumbOut.organizer : crumbOut.organizer[i] # <<>>
               /\ PlainTrail(crumbDoc) =>
                     crumbOut.organizer = TrimmedAnchorTexts(crumbDoc)

\* both extractors have read a trail of two entries in the exported form,
\* whose texts need trimming
C7_Witness ==
    /\ crumbOut.called = {"tree", "organizer"}
    /\ BreadcrumbSection(crumbDoc) # <<>> /\ PlainTrail(crumbDoc)
    /\ crumbOut.tree = <<<<"S">>, <<"P">>>>
    /\ \E n \in Range(Nodes(crumbDoc)) : IsText(n) /\ n.text = <<" ", "S", " ">>

-----------------------------------------------------------------------------
(* The batch: FileProcessor.process_files.  A path below the output          *)
(* directory is the sequence of its names; outFiles maps the path of a file  *)
(* to [kind, of, content]: "html" or "docx", the index of the input file it  *)
(* was made of, and the tree written.                                        *)

S_html == <<".","h","t","m","l">>
S_docx == <<".","d","o","c","x">>

IsPrefix(a, b) == Len(a) <= Len(b) /\ SubSeq(b, 1, Len(a)) = a

\* re.search(r'\((.*?)\)', s): the text between the first "(" that has a ")"
\* after it and that ")", as a sequence of at most one text
ParenText(s) ==
    LET opens == {i \in DOMAIN s : s[i] = "(" /\ \E j \in DOMAIN s : j > i /\ s[j] = ")"}
    IN  IF opens = {} THEN <<>>
        ELSE LET i == CHOOSE x \in opens : \A y \in opens : x <= y
                 j == CHOOSE x \in DOMAIN s :
                          /\ x > i /\ s[x] = ")"
                          /\ \A y \in DOMAIN s : (y > i /\ s[y] = ")") => x <= y
             IN  <<SubSeq(s, i + 1, j - 1)>>

\* the space name setup_directory_structure finds in the first file: the
\* first breadcrumb, else the text in parentheses of the title; empty if none
SpaceNameOf(soup) ==
    LET breadcrumbs == _extract_breadcrumbs(soup)
        title_tag == FindTag(soup, "title")
    IN  IF breadcrumbs # <<>> THEN breadcrumbs[1]
        ELSE IF title_tag # <<>> /\ TagString(title_tag[1]) # <<>>
                /\ TagString(title_tag[1])[1] # <<>>
                /\ ParenText(TagString(title_tag[1])[1]) # <<>>
             THEN Strip(ParenText(TagString(title_tag[1])[1])[1])
             ELSE <<>>

\* new_base_dir = self.output_dir / self._sanitize_filename(space_name)
NewBaseDir(name) == <<_sanitize_filename(name)>>

\* re.sub(f'^{re.escape(space_name)}-', '', filename)
RemoveSpacePrefix(filename, name) ==
    IF StartsWith(filename, name \o <<"-">>)
    THEN SubSeq(filename, Len(name) + 2, Len(filename))
    ELSE filename

\* FileProcessor._get_safe_filename
_get_safe_filename(soup, stem, name) ==
    LET title_tag == FindTag(soup, "title")
        filename ==
            IF title_tag # <<>> /\ TagString(title_tag[1]) # <<>>
               /\ TagString(title_tag[1])[1] # <<>>
            THEN _sanitize_filename(Strip(TagString(title_tag[1])[1]))
            ELSE stem
    IN  RemoveSpacePrefix(filename, name) \o S_html

\* FileProcessor._create_directory_path: the directories made, and the last
RECURSIVE _create_directory_path(_, _)
_create_directory_path(base_path, breadcrumbs) ==
    IF breadcrumbs = <<>> THEN [made |-> {}, path |-> base_path]
    ELSE LET current_path == base_path \o <<Head(breadcrumbs)>>
             rest == _create_directory_path(current_path, Tail(breadcrumbs))
         IN  [made |-> {current_path} \cup rest.made, path |-> rest.path]

\* a variant of the cleaning call that returns the tree it has when a pass
\* raises
CleanedHtmlKeepingPartial(soup) == [Clean(soup) EXCEPT !.raised = FALSE]

\* cleaner = HTMLCleaner(str(soup), target_dir); cleaned_html = cleaner.clean()
CleanedHtml(soup) == Clean(soup)

\* a variant of the counting that leaves a failed file out
CountResultSkippingFailures(s, success) ==
    IF success THEN [s EXCEPT !.processed_files = @ + 1] ELSE s

\* the branches of the loop of _process_html_files on the call's result
CountResult(s, success) ==
    IF success THEN [s EXCEPT !.processed_files = @ + 1]
    ELSE [s EXCEPT !.failed_files = @ + 1]

\* the name of a file without its extension
FileStem(name) == SubSeq(name, 1, Len(name) - Len(S_html))

\* _organize_duplicates: a file that has a sibling directory of its own stem
\* is moved into that directory
MovedPath(p, dirs) ==
    LET parent == SubSeq(p, 1, Len(p) - 1)
        potential_folder == parent \o <<FileStem(p[Len(p)])>>
    IN  IF potential_folder \in dirs THEN potential_folder \o <<p[Len(p)]>> ELSE p

_organize_duplicates(fs, dirs) ==
    LET targets == {MovedPath(p, dirs) : p \in DOMAIN fs}
    IN  [t \in targets |->
            LET movers == {p \in DOMAIN fs : p # t /\ MovedPath(p, dirs) = t}
            IN  IF movers # {} THEN fs[CHOOSE p \in movers : TRUE] ELSE fs[t]]

\* the discrepancy check of process_files and _log_processing_stats
FinalStats(s) ==
    IF s.processed_files + s.failed_files # s.total_input_files
    THEN [s EXCEPT !.errors = @ \o <<"Discrepancy found">>]
    ELSE s

-----------------------------------------------------------------------------
(* The files of an input directory *)

Crumb(t) == Li(<<Span(<<Anchor(<<T(t)>>)>>)>>)

\* an exported page: a title, an optional trail, some content
Page(titleText, trail, blocks) ==
    NumberNode(
        Elem("html", NoAttrs,
             <<Elem("head", NoAttrs, <<Elem("title", NoAttrs, <<T(titleText)>>)>>),
               Elem("body", NoAttrs,
                    (IF trail = <<>> THEN <<>> ELSE <<Trail(trail)>>) \o blocks)>>), 1)

\* a page below a parent, a page at the top named like that parent, a page
\* whose cleaning raises, a page with elements that raise inside their pass,
\* pages without a trail, with and without a space name in the title, and a
\* page below the same parent whose title is that of the first page after
\* the name of the space
Pages ==
    {Page(<<"T">>, <<Crumb(<<"S">>), Crumb(<<"P">>)>>, <<P(S_x)>>),
     Page(<<"S","-","P">>, <<Crumb(<<"S">>)>>, <<Table(<<"confluenceTable">>)>>),
     Page(<<"R">>, <<Crumb(<<"S">>), Crumb(<<"P">>)>>, <<TocInToc>>),
     Page(<<"M">>, <<Crumb(<<"S">>)>>, <<Mixed>>),
     Page(<<"N"," ","(","S",")">>, <<>>, <<P(S_x)>>),
     Page(<<"N">>, <<>>, <<P(S_x)>>),
     Page(<<"S","-","T">>, <<Crumb(<<"S">>), Crumb(<<"P">>)>>, <<P(S_x)>>)}

MaxFiles == 2

FileStems == <<<<"f","1">>, <<"f","2">>, <<"f","3">>, <<"f","4">>>>

\* the HTML files rglob finds, in the order it yields them
InputDirs ==
    {Strict([i \in 1..Len(ps) |-> [stem |-> FileStems[i], soup |-> ps[i]]]) :
        ps \in SeqsUpTo(Pages, MaxFiles) \ {<<>>}}

-----------------------------------------------------------------------------
(* process_files as a state machine *)

\* FileProcessor.__init__
InitBatch ==
    /\ files \in InputDirs
    /\ create_docx \in BOOLEAN
    /\ todo = <<>>
    /\ stats = [total_input_files |-> 0, processed_files |-> 0, failed_files |-> 0,
                created_docx |-> 0, errors |-> <<>>]
    /\ outFiles = <<>> /\ outDirs = {}
    /\ cur = <<>> /\ bpc = "start" /\ space_name = <<>>
    /\ IdleClean /\ IdleCrumbs /\ IdleTree

\* _count_input_files
CountInputFiles ==
    /\ bpc = "start"
    /\ stats' = [stats EXCEPT !.total_input_files = Len(files)]
    /\ bpc' = "setup"
    /\ UNCHANGED <<files, todo, outFiles, cur, outDirs, create_docx, space_name>>
    /\ UNCHANGED cleanVars /\ UNCHANGED crumbVars /\ UNCHANGED treeVars

\* setup_directory_structure on the first file glob lists, whichever it is;
\* without a space name it raises and process_files records it and raises
SetupDirectoryStructure ==
    /\ bpc = "setup"
    /\ \E first \in DOMAIN files :
          LET name == SpaceNameOf(files[first].soup)
              new_base_dir == NewBaseDir(name)
          IN  IF name = <<>>
              THEN /\ bpc' = "raised"
                   /\ stats' = [stats EXCEPT !.errors = @ \o <<"No breadcrumbs or valid title found">>]
                   /\ UNCHANGED <<todo, outFiles, outDirs, space_name>>
              ELSE /\ bpc' = "loop"
                   /\ space_name' = name
                   /\ outFiles' = [p \in {q \in DOMAIN outFiles : ~IsPrefix(new_base_dir, q)}
                                     |-> outFiles[p]]
                   /\ outDirs' = {q \in outDirs : ~IsPrefix(new_base_dir, q)}
                                 \cup {new_base_dir}
                   /\ todo' = files
                   /\ UNCHANGED stats
    /\ UNCHANGED <<files, cur, create_docx>>
    /\ UNCHANGED cleanVars /\ UNCHANGED crumbVars /\ UNCHANGED treeVars

\* the loop of _process_html_files takes the next file
NextFile ==
    /\ bpc = "loop" /\ todo # <<>>
    /\ cur' = [idx |-> Len(files) - Len(todo) + 1, new_filename |-> <<>>,
               target_dir |-> <<>>, cleaned_html |-> <<>>, success |-> FALSE]
    /\ todo' = Tail(todo)
    /\ bpc' = "read"
    /\ UNCHANGED <<files, stats, outFiles, outDirs, create_docx, space_name>>
    /\ UNCHANGED cleanVars /\ UNCHANGED crumbVars /\ UNCHANGED treeVars

\* _process_html_file up to the cleaning: the file is read, named, and its
\* directories are made; without breadcrumbs it returns False
ReadHtmlFile ==
    /\ bpc = "read"
    /\ LET soup == files[cur.idx].soup
           breadcrumbs == _extract_breadcrumbs(soup)
           dirs == _create_directory_path(NewBaseDir(space_name), Tail(breadcrumbs))
       IN  IF breadcrumbs = <<>>
           THEN /\ cur' = [cur EXCEPT !.new_filename =
                               _get_safe_filename(soup, files[cur.idx].stem, space_name)]
                /\ bpc' = "count"
                /\ UNCHANGED outDirs
           ELSE /\ cur' = [cur EXCEPT !.new_filename =
                               _get_safe_filename(soup, files[cur.idx].stem, space_name),
                                      !.target_dir = dirs.path]
                /\ outDirs' = outDirs \cup dirs.made
                /\ bpc' = "clean"
    /\ UNCHANGED <<files, todo, stats, outFiles, create_docx, space_name>>
    /\ UNCHANGED cleanVars /\ UNCHANGED crumbVars /\ UNCHANGED treeVars

\* cleaner.clean(): it returns the cleaned HTML, or it raises and
\* _process_html_file returns False
CleanHtml ==
    /\ bpc = "clean"
    /\ LET cleaned == CleanedHtml(files[cur.idx].soup)
       IN  IF cleaned.raised
           THEN bpc' = "count" /\ UNCHANGED cur
           ELSE bpc' = "save" /\ cur' = [cur EXCEPT !.cleaned_html = cleaned.tree]
    /\ UNCHANGED <<files, todo, stats, outFiles, outDirs, create_docx, space_name>>
    /\ UNCHANGED cleanVars /\ UNCHANGED crumbVars /\ UNCHANGED treeVars

\* _save_html_file(target_dir / new_filename, cleaned_html)
SaveHtmlFile ==
    /\ bpc = "save"
    /\ outFiles' = (cur.target_dir \o <<cur.new_filename>>)
                       :> [kind |-> "html", of |-> cur.idx, content |-> cur.cleaned_html]
                   @@ outFiles
    /\ IF create_docx THEN bpc' = "docx" /\ UNCHANGED cur
       ELSE bpc' = "count" /\ cur' = [cur EXCEPT !.success = TRUE]
    /\ UNCHANGED <<files, todo, stats, outDirs, create_docx, space_name>>
    /\ UNCHANGED cleanVars /\ UNCHANGED crumbVars /\ UNCHANGED treeVars

\* _convert_to_docx: the converter writes the file, or it raises and
\* _process_html_file returns False
ConvertToDocx ==
    /\ bpc = "docx"
    /\ \E converted \in BOOLEAN :
          IF converted
          THEN /\ outFiles' = (cur.target_dir
                                  \o <<FileStem(cur.new_filename) \o S_docx>>)
                                  :> [kind |-> "docx", of |-> cur.idx, content |-> <<>>]
                              @@ outFiles
               /\ stats' = [stats EXCEPT !.created_docx = @ + 1]
               /\ cur' = [cur EXCEPT !.success = TRUE]
          ELSE UNCHANGED <<outFiles, stats, cur>>
    /\ bpc' = "count"
    /\ UNCHANGED <<files, todo, outDirs, create_docx, space_name>>
    /\ UNCHANGED cleanVars /\ UNCHANGED crumbVars /\ UNCHANGED treeVars

\* back in the loop: the file is counted as processed or as failed
CountFile ==
    /\ bpc = "count"
    /\ stats' = CountResult(stats, cur.success)
    /\ cur' = <<>>
    /\ bpc' = "loop"
    /\ UNCHANGED <<files, todo, outFiles, outDirs, create_docx, space_name>>
    /\ UNCHANGED cleanVars /\ UNCHANGED crumbVars /\ UNCHANGED treeVars

\* after the loop: _organize_duplicates, the discrepancy check, return
FinishBatch ==
    /\ bpc = "loop" /\ todo = <<>>
    /\ outFiles' = _organize_duplicates(outFiles, outDirs)
    /\ stats' = FinalStats(stats)
    /\ bpc' = "returned"
    /\ UNCHANGED <<files, todo, cur, outDirs, create_docx, space_name>>
    /\ UNCHANGED cleanVars /\ UNCHANGED crumbVars /\ UNCHANGED treeVars

-----------------------------------------------------------------------------
(* Properties of the batch, checked under BatchSpec *)

OutputIsCleaned ==
    \A p \in DOMAIN outFiles :
        outFiles[p].kind = "html" =>
            LET cleaned == Clean(files[outFiles[p].of].soup)
            IN  ~cleaned.raised /\ outFiles[p].content = cleaned.tree

\* while the file in progress is one whose cleaning raises, no file of the
\* output is created or modified
RaisedWritesNothing ==
    outFiles' # outFiles => ~(cur # <<>> /\ Clean(files[cur.idx].soup).raised)

-----------------------------------------------------------------------------
(* The document tree: DocumentTreeBuilder (core/document_tree.py).  A node *)
(* is [name, path, children]: path is <<>> for None and <<file>> for the   *)
(* relative path of a file; children holds the values of the dict in       *)
(* insertion order, their names being the keys.                            *)

S_root == <<"r", "o", "o", "t">>

\* TreeNode(name=name, path=path)
TreeNode(name, path) == [name |-> name, path |-> path, children |-> <<>>]

\* the position of the key name in node.children, 0 when it is not a key
ChildIndex(node, name) ==
    IF \E i \in DOMAIN node.children : node.children[i].name = name
    THEN CHOOSE i \in DOMAIN node.children : node.children[i].name = name
    ELSE 0

\* current.children[title] = TreeNode(...): a key that exists keeps its place
\* and gets the new value
SetChild(node, child) ==
    LET i == ChildIndex(node, child.name)
    IN  IF i = 0 THEN [node EXCEPT !.children = Append(@, child)]
        ELSE [node EXCEPT !.children[i] = child]

\* add_to_tree(breadcrumbs, title, file_path), from the node current
RECURSIVE add_to_tree(_, _, _, _)
add_to_tree(current, breadcrumbs, t, file_path) ==
    IF breadcrumbs = <<>> THEN SetChild(current, TreeNode(t, <<file_path>>))
    ELSE LET crumb == Head(breadcrumbs)
             i == ChildIndex(current, crumb)
         IN  IF i = 0
             THEN [current EXCEPT !.children =
                      Append(@, add_to_tree(TreeNode(crumb, <<>>), Tail(breadcrumbs),
                                            t, file_path))]
             ELSE [current EXCEPT !.children[i] =
                      add_to_tree(@, Tail(breadcrumbs), t, file_path)]

\* the printable characters in the order of their code points, from 32 on
Ascii ==
    <<
      " ", "!", "\"", "#", "$", "%", "&", "'", "(", ")", "*", "+",
      ",", "-", ".", "/", "0", "1", "2", "3", "4", "5", "6", "7",
      "8", "9", ":", ";", "<", "=", ">", "?", "@", "A", "B", "C",
      "D", "E", "F", "G", "H", "I", "J", "K", "L", "M", "N", "O",
      "P", "Q", "R", "S", "T", "U", "V", "W", "X", "Y", "Z", "[",
      "\\", "]", "^", "_", "<backquote>", "a", "b", "c", "d", "e", "f", "g",
      "h", "i", "j", "k", "l", "m", "n", "o", "p", "q", "r", "s",
      "t", "u", "v", "w", "x", "y", "z", "{", "|", "}", "~" >>

CodePoint == [c \in Range(Ascii) |-> 31 + CHOOSE i \in DOMAIN Ascii : Ascii[i] = c]

\* str.lower(), on one character
LowerChar(c) ==
    IF c \in DOMAIN CodePoint /\ CodePoint[c] \in 65..90
    THEN Ascii[CodePoint[c] + 1]
    ELSE c

Lower(s) == [i \in DOMAIN s |-> LowerChar(s[i])]

\* a < b for two strings, as Python compares them
RECURSIVE StrLess(_, _)
StrLess(a, b) ==
    IF b = <<>> THEN FALSE
    ELSE IF a = <<>> THEN TRUE
    ELSE IF Head(a) = Head(b) THEN StrLess(Tail(a), Tail(b))
    ELSE CodePoint[Head(a)] < CodePoint[Head(b)]

\* key=lambda x: (not bool(x[1].children), x[0].lower())
SortKeyLess(x, y) ==
    LET kx == x.children = <<>>
        ky == y.children = <<>>
    IN  IF kx # ky THEN ky
        ELSE StrLess(Lower(x.name), Lower(y.name))

\* sorted(): stable, so an element goes after those that are not greater
RECURSIVE InsertSorted(_, _)
InsertSorted(sorted, x) ==
    IF sorted = <<>> THEN <<x>>
    ELSE IF SortKeyLess(x, Head(sorted)) THEN <<x>> \o sorted
    ELSE <<Head(sorted)>> \o InsertSorted(Tail(sorted), x)

RECURSIVE sorted_children(_)
sorted_children(children) ==
    IF children = <<>> THEN <<>>
    ELSE InsertSorted(sorted_children(SubSeq(children, 1, Len(children) - 1)),
                      children[Len(children)])

\* f"{name} ({child.path})"
NameWithPath(name, path) == name \o <<" ", "(">> \o path \o <<")">>

\* generate_table_format(node, parent_path): the rows, each a list of names
RECURSIVE generate_table_format(_, _, _)
generate_table_format(node, parent_path, show) ==
    LET current_path == IF node.name # S_root THEN parent_path \o <<node.name>>
                        ELSE <<>>
        own == IF node.name # S_root /\ node.path = <<>> THEN <<current_path>>
               ELSE <<>>
        kids == sorted_children(node.children)
        RowsOf(child) ==
            IF child.path # <<>>
            THEN <<current_path \o
                   <<IF show THEN NameWithPath(child.name, child.path[1])
                     ELSE child.name>>>>
            ELSE generate_table_format(child, current_path, show)
    IN  own \o SeqConcat([i \in 1..Len(kids) |-> RowsOf(kids[i])])

\* generate_tree_format(node, level): the lines of the outline; a line is
\* its level of indentation, the name, and the path of a file entry
RECURSIVE generate_tree_format(_, _, _)
generate_tree_format(node, level, show) ==
    LET kids == sorted_children(node.children)
        LinesOf(child) ==
            IF child.path # <<>>
            THEN <<[level |-> level, folder |-> FALSE, name |-> child.name,
                    path |-> IF show THEN child.path ELSE <<>>]>>
            ELSE <<[level |-> level, folder |-> TRUE, name |-> child.name,
                    path |-> <<>>]>>
                 \o generate_tree_format(child, level + 1, show)
    IN  IF node.children = <<>> /\ node.path = <<>> THEN <<>>
        ELSE SeqConcat([i \in 1..Len(kids) |-> LinesOf(kids[i])])

\* config['document_tree']['separator']: the default of --tree-separator
separator == ";"

\* separator.join(row)
RECURSIVE JoinRow(_, _)
JoinRow(row, sep) ==
    IF row = <<>> THEN <<>>
    ELSE IF Len(row) = 1 THEN row[1]
    ELSE row[1] \o <<sep>> \o JoinRow(Tail(row), sep)

\* export_markdown with the table format: the lines of the string returned
export_table(node, show) ==
    LET rows == generate_table_format(node, <<>>, show)
    IN  [i \in 1..Len(rows) |-> JoinRow(rows[i], separator)]

-----------------------------------------------------------------------------
(* The tree builder as a state machine: documents are added one at a time  *)
(* and the tree is exported in either format.                              *)

S_A == <<"A">>
S_B == <<"B">>

\* the breadcrumb paths and the titles of the documents
TreePaths == {<<>>, <<S_A>>, <<S_A, S_B>>, <<S_B>>}
TreeTitles == {S_A, S_B, <<"a">>, <<"A", ";", "B">>}

MaxDocs == 3

\* the relative path of the i-th file
FileName(i) == <<"f", Ascii[i + 17]>>

NotExported == [format |-> "none", rows |-> <<>>, lines |-> <<>>]

InitTree ==
    /\ root = TreeNode(S_root, <<>>)
    /\ added = <<>>
    /\ show_filenames \in BOOLEAN
    /\ exported = NotExported
    /\ IdleClean /\ IdleCrumbs /\ IdleBatch

\* build_tree: one more file, whose (breadcrumbs, title) differs from those
\* of the files added before
AddToTree ==
    /\ root # <<>> /\ bpc = "idle" /\ Len(added) < MaxDocs
    /\ \E breadcrumbs \in TreePaths, t \in TreeTitles :
          /\ \A i \in DOMAIN added :
                ~(added[i].breadcrumbs = breadcrumbs /\ added[i].title = t)
          /\ LET file_path == FileName(Len(added) + 1)
             IN  /\ root' = add_to_tree(root, breadcrumbs, t, file_path)
                 /\ added' = Append(added, [breadcrumbs |-> breadcrumbs,
                                            title |-> t, file |-> file_path])
    /\ exported' = NotExported
    /\ UNCHANGED show_filenames
    /\ UNCHANGED cleanVars /\ UNCHANGED crumbVars /\ UNCHANGED batchVars

\* export_markdown with format 'table': rows go to the csv writer, the
\* joined lines are returned
ExportTable ==
    /\ root # <<>> /\ bpc = "idle" /\ exported.format # "table"
    /\ exported' = [format |-> "table",
                    rows |-> generate_table_format(root, <<>>, show_filenames),
                    lines |-> export_table(root, show_filenames)]
    /\ UNCHANGED <<root, added, show_filenames>>
    /\ UNCHANGED cleanVars /\ UNCHANGED crumbVars /\ UNCHANGED batchVars

\* export_markdown with format 'tree'
ExportOutline ==
    /\ root # <<>> /\ bpc = "idle" /\ exported.format # "tree"
    /\ exported' = [format |-> "tree",
                    rows |-> <<>>,
                    lines |-> generate_tree_format(root, 0, show_filenames)]
    /\ UNCHANGED <<root, added, show_filenames>>
    /\ UNCHANGED cleanVars /\ UNCHANGED crumbVars /\ UNCHANGED batchVars

NextTree == AddToTree \/ ExportTable \/ ExportOutline

TreeSpec == InitTree /\ [][NextTree]_vars

-----------------------------------------------------------------------------
(* The main workflow: process_files, then the document tree of the output  *)
(* directory                                                               *)

\* list(self.input_dir.rglob("*.html")) on the output directory: the HTML
\* files process_files wrote, in any order
HtmlFilesIn(fs) ==
    LET found == {q \in DOMAIN fs : fs[q].kind = "html"}
    IN  {ord \in [1..Cardinality(found) -> found] :
            \A q \in found : \E i \in DOMAIN ord : ord[i] = q}

\* the loop of build_tree from the i-th file: the file is read and parsed,
\* its breadcrumbs and title are extracted, and it is added to the tree
RECURSIVE build_tree(_, _, _, _)
build_tree(node, fs, html_files, i) ==
    IF i > Len(html_files) THEN node
    ELSE LET e == extract_breadcrumbs(Reparse(fs[html_files[i]].content))
         IN  build_tree(add_to_tree(node, e.breadcrumbs, e.title, html_files[i]),
                        fs, html_files, i + 1)

\* HTMLProcessorCLI.generate_document_tree after process_files: a tree
\* builder on the output directory builds the tree and exports it
GenerateDocumentTree ==
    /\ bpc = "returned"
    /\ \E html_files \in HtmlFilesIn(outFiles) :
          /\ root' = build_tree(TreeNode(S_root, <<>>), outFiles, html_files, 1)
          /\ added' = [i \in DOMAIN html_files |->
                          LET e == extract_breadcrumbs(
                                       Reparse(outFiles[html_files[i]].content))
                          IN  [breadcrumbs |-> e.breadcrumbs, title |-> e.title,
                               file |-> html_files[i]]]
    /\ exported' = [format |-> "tree", rows |-> <<>>,
                    lines |-> generate_tree_format(root', 0, show_filenames)]
    /\ bpc' = "tree"
    /\ UNCHANGED show_filenames
    /\ UNCHANGED <<files, todo, stats, outFiles, cur, outDirs, create_docx, space_name>>
    /\ UNCHANGED cleanVars /\ UNCHANGED crumbVars

NextBatch ==
    \/ CountInputFiles \/ SetupDirectoryStructure \/ NextFile \/ ReadHtmlFile
    \/ CleanHtml \/ SaveHtmlFile \/ ConvertToDocx \/ CountFile \/ FinishBatch
    \/ GenerateDocumentTree

BatchSpec == InitBatch /\ [][NextBatch]_vars

-----------------------------------------------------------------------------
(* Properties of the tree builder, checked under TreeSpec *)

\* line.split(separator)
RECURSIVE Split(_, _)
Split(s, sep) ==
    IF \A i \in DOMAIN s : s[i] # sep THEN <<s>>
    ELSE LET i == CHOOSE k \in DOMAIN s :
                     s[k] = sep /\ \A j \in 1..(k - 1) : s[j] # sep
         IN  <<SubSeq(s, 1, i - 1)>> \o Split(SubSeq(s, i + 1, Len(s)), sep)

\* the name of a cell "name (path)": the text before the last " ("
StripPath(cell) ==
    LET opens == {i \in 1..(Len(cell) - 1) : cell[i] = " " /\ cell[i + 1] = "("}
    IN  IF cell # <<>> /\ cell[Len(cell)] = ")" /\ opens # {}
        THEN SubSeq(cell, 1, (CHOOSE i \in opens : \A j \in opens : j <= i) - 1)
        ELSE cell

\* the (breadcrumb path, title) pair a line of the table stands for
ParseRow(line, show) ==
    LET cells == Split(line, separator)
        last == cells[Len(cells)]
    IN  [breadcrumbs |-> SubSeq(cells, 1, Len(cells) - 1),
         title |-> IF show THEN StripPath(last) ELSE last]

AddedPairs ==
    {[breadcrumbs |-> added[i].breadcrumbs, title |-> added[i].title] :
        i \in DOMAIN added}

\* C11: the table export parsed back, each line split on the separator,
\* gives exactly the (breadcrumb path, title) pairs of the documents added:
\* one row per document, no other row, no document missing
C11_TableRoundTrip ==
    exported.format = "table" =>
        /\ {ParseRow(exported.lines[i], show_filenames) : i \in DOMAIN exported.lines}
              = AddedPairs
        /\ Len(exported.lines) = Len(added)

\* the node reached from node by the names, as a sequence of at most one node
RECURSIVE Lookup(_, _)
Lookup(node, names) ==
    IF names = <<>> THEN <<node>>
    ELSE LET i == ChildIndex(node, Head(names))
         IN  IF i = 0 THEN <<>> ELSE Lookup(node.children[i], Tail(names))

\* the names of the folder lines a line of the outline is nested in
RECURSIVE OutlinePath(_, _)
OutlinePath(lines, i) ==
    IF lines[i].level = 0 THEN <<>>
    ELSE LET above == {k \in 1..(i - 1) : lines[k].level = lines[i].level - 1}
             k == CHOOSE m \in above : \A j \in above : j <= m
         IN  OutlinePath(lines, k) \o <<lines[k].name>>

\* the document is a node of the tree that carries its file
StillInTree(d) ==
    LET found == Lookup(root, d.breadcrumbs \o <<d.title>>)
    IN  found # <<>> /\ found[1].path = <<d.file>>

\* the table has a row that is the breadcrumb path followed by the entry
InTable(d) ==
    \E i \in DOMAIN exported.rows :
        exported.rows[i] = d.breadcrumbs \o
            <<IF show_filenames THEN NameWithPath(d.title, d.file) ELSE d.title>>

\* the outline has a file line for the document below its folders
InOutline(d) ==
    \E i \in DOMAIN exported.lines :
        /\ ~exported.lines[i].folder
        /\ exported.lines[i].name = d.title
        /\ show_filenames => exported.lines[i].path = <<d.file>>
        /\ OutlinePath(exported.lines, i) = d.breadcrumbs

\* C19: whatever the order in which documents with pairwise distinct
\* (breadcrumb path, title) were added, each of them is still a node of the
\* tree and is a file entry under its breadcrumb path in the table and in
\* the outline, also when its title is the name of a folder of its level
C19_EveryDocumentKept ==
    \A i \in DOMAIN added :
        /\ StillInTree(added[i])
        /\ exported.format = "table" => InTable(added[i])
        /\ exported.format = "tree" => InOutline(added[i])

-----------------------------------------------------------------------------
(* More properties of the cleaner, checked under Spec *)

\* what identifies an element across the pruning: its tag, identity,
\* attributes and trimmed text
Kept(n) == [tag |-> n.tag, nid |-> n.nid, attrs |-> n.attrs, text |-> GetText(n, TRUE)]

\* the elements of d the pruning looks at, in document order
Checked(d) == SelectSeq(Nodes(d), LAMBDA n : n.tag \in tags_to_check)

\* the pruning pass has just run
AfterPruning == pc = 16 /\ outcome = "running"

\* no element the pass looks at is empty, and the pass changes nothing more
PrunedToFixedPoint ==
    AfterPruning =>
        /\ \A n \in Range(Nodes(doc)) :
              n.tag \in tags_to_check =>
                  \/ GetText(n, TRUE) # <<>>
                  \/ \E m \in Range(Descendants(n)) : m.tag \in {"img", "br"}
        /\ _remove_empty_elements(doc) = doc

\* the pass keeps, in their order, exactly the elements with text or with an
\* img or br below them
PruningKeepsTheRest ==
    (pc = 15 /\ pc' = 16) =>
        LET before == SelectSeq(Checked(doc),
                        LAMBDA n : \/ GetText(n, TRUE) # <<>>
                                   \/ \E m \in Range(Descendants(n)) :
                                         m.tag \in {"img", "br"})
            after == Checked(doc')
        IN  [i \in DOMAIN before |-> Kept(before[i])]
              = [i \in DOMAIN after |-> Kept(after[i])]

-----------------------------------------------------------------------------
(* The sanitized state: from _clean_attributes_and_classes to the return *)

\* the attribute/class/id sanitization of the running clean() is done
AfterSanitization == pc >= 12

SanitizedElement(n) ==
    /\ Has(n, "class") =>
           /\ n.attrs["class"] # <<>>
           /\ \A i \in DOMAIN n.attrs["class"] :
                  n.attrs["class"][i] \notin confluence_classes
    /\ Has(n, "id") => n.attrs["id"] \notin (confluence_ids \cup ExpanderIds)
    /\ (DOMAIN n.attrs) \cap DataAttrs = {}

\* C13: in every state from the end of the attribute/class/id sanitization
\* pass to the end of clean(), a class attribute that is present is a
\* non-empty list without a token of the class denylist, no element has an id
\* of the id denylist or one that starts with expander-, and no element has a
\* data- attribute
C13_SanitizedToTheEnd ==
    AfterSanitization =>
        \A i \in DOMAIN Nodes(doc) :
            IsElem(Nodes(doc)[i]) => SanitizedElement(Nodes(doc)[i])

\* the sanitization has just run on a document in which one element had a
\* data- attribute, an expander- id and a class with a denylisted token and
\* another one: the element is still there with the other token alone
C13_Witness ==
    /\ pc = 12 /\ run = 1
    /\ \E i \in DOMAIN Nodes(input) :
           LET m == Nodes(input)[i]
           IN  /\ IsElem(m) /\ Has(m, "class") /\ Has(m, "id")
               /\ (DOMAIN m.attrs) \cap DataAttrs # {}
               /\ m.attrs["id"] \in ExpanderIds
               /\ \E j \in DOMAIN m.attrs["class"] :
                      m.attrs["class"][j] \in confluence_classes
               /\ NodeById(doc, m.nid) # <<>>
               /\ DOMAIN NodeById(doc, m.nid)[1].attrs = {"class"}
               /\ NodeById(doc, m.nid)[1].attrs["class"] = <<"note">>

-----------------------------------------------------------------------------
(* The title the cleaner extracts at construction *)

\* the title the description asks for: the trimmed text of the title element
\* when there is one and the text is not blank, the fixed fallback otherwise
ExpectedTitle(d) ==
    LET title_tag == FindTag(d, "title")
        text == IF title_tag = <<>> THEN <<>>
                ELSE Strip(GetText(title_tag[1], FALSE))
    IN  IF text # <<>> THEN text ELSE S_untitled

\* C14: the extracted title is the trimmed title text when that is not empty
\* and "Untitled Document" when the document has no title element or a title
\* whose text is empty or only whitespace; it is never the empty string
C14_TitleOrUntitled ==
    /\ title = ExpectedTitle(input)
    /\ title # <<>>

\* what the code does satisfy of C14: the claim holds for every document
\* whose title element is missing, empty, or has text that is not blank
C14_UnlessBlankTitle ==
    LET title_tag == FindTag(input, "title")
    IN  (title_tag = <<>> \/ title_tag[1].kids = <<>>
            \/ Strip(GetText(title_tag[1], FALSE)) # <<>>)
        => title = ExpectedTitle(input) /\ title # <<>>

-----------------------------------------------------------------------------
(* One document, two environments *)

\* the cleaner that was given the document of the first one has returned
CleanedSameInput == run = 3 /\ outcome = "returned"

\* C15: the output of clean() is determined by the document and the target
\* directory alone: a cleaner given the same document returns the same
\* output whatever the working directory and the command-line arguments of
\* its process are and whatever was cleaned before
C15_OutputOfDocumentAlone ==
    CleanedSameInput => doc = firstOut

\* what the code does satisfy of C15: with the same working directory and
\* the same --input-dir the output is the same, whatever was cleaned before;
\* and the environment matters to documents with a relative img src only
C15_SameEnvironmentSameOutput ==
    CleanedSameInput /\ (JoinedDirs(env) = JoinedDirs(Env0)
                           \/ \A i \in DOMAIN Nodes(firstOut) :
                                 Has(Nodes(firstOut)[i], "src") =>
                                     Nodes(firstOut)[i].attrs["src"].via # "cwd")
        => doc = firstOut

-----------------------------------------------------------------------------
(* What the output never contains *)

IsScript(n) == IsElem(n) /\ n.tag = "script"

IsBreadcrumbSection(n) ==
    IsElem(n) /\ n.tag = "div" /\ Has(n, "id") /\ n.attrs["id"] = "breadcrumb-section"

IsFooterOrMetadata(n) ==
    /\ IsElem(n)
    /\ \/ n.tag = "div" /\ Has(n, "id") /\ n.attrs["id"] \in {"footer", "footer-logo"}
       \/ n.tag \in {"div", "section"} /\ HasClass(n, "footer-body")
       \/ n.tag = "div" /\ Has(n, "role") /\ n.attrs["role"] = "contentinfo"
       \/ n.tag = "div" /\ HasClass(n, "page-metadata")

\* C16: the output of clean() contains no script element, no comment, no
\* div#breadcrumb-section and no footer or metadata section, whatever the
\* input contained
C16_NoScriptCommentFooter ==
    outcome = "returned" =>
        \A i \in DOMAIN Nodes(doc) :
            LET n == Nodes(doc)[i]
            IN  /\ ~IsComment(n) /\ ~IsScript(n)
                /\ ~IsBreadcrumbSection(n) /\ ~IsFooterOrMetadata(n)

\* clean() has returned for an input that held scripts, comments, the
\* breadcrumb section and every footer and metadata section inside one div,
\* and the div and its paragraph are in the output
C16_Witness ==
    /\ Cleaned
    /\ \E i \in DOMAIN Nodes(input) :
           LET m == Nodes(input)[i]
               Holds(Test(_)) == \E j \in DOMAIN m.kids : Test(m.kids[j])
           IN  /\ IsElem(m)
               /\ Holds(IsScript) /\ Holds(IsComment) /\ Holds(IsBreadcrumbSection)
               /\ \A sel \in 1..6 : \E j \in DOMAIN m.kids :
                      LET k == m.kids[j]
                      IN  /\ IsElem(k)
                          /\ CASE sel = 1 -> k.tag = "div" /\ Get(k, "id", "") = "footer"
                               [] sel = 2 -> k.tag = "div" /\ Get(k, "id", "") = "footer-logo"
                               [] sel = 3 -> k.tag = "div" /\ HasClass(k, "footer-body")
                               [] sel = 4 -> k.tag = "section" /\ HasClass(k, "footer-body")
                               [] sel = 5 -> k.tag = "div" /\ Get(k, "role", "") = "contentinfo"
                               [] sel = 6 -> k.tag = "div" /\ HasClass(k, "page-metadata")
               /\ NodeById(doc, m.nid) # <<>>
               /\ \E j \in DOMAIN NodeById(doc, m.nid)[1].kids :
                      NodeById(doc, m.nid)[1].kids[j].tag = "p"

-----------------------------------------------------------------------------
(* The charset declaration of the output *)

\* the first child of n that is an element, as a sequence of at most one node
FirstElement(n) ==
    LET elems == SelectSeq(n.kids, IsElem)
    IN  IF elems = <<>> THEN <<>> ELSE <<elems[1]>>

\* the element is written to the output as a meta declaring charset UTF-8
DeclaresUtf8(n) ==
    /\ n.tag = "meta" /\ Has(n, "charset")
    /\ Lower(SerializedAttrs(n)["charset"]) = Lower(S_utf8)

MetaFirstInHead(d) ==
    /\ HasHead(d)
    /\ FirstElement(d.kids[HeadIndex(d)]) # <<>>
    /\ DeclaresUtf8(FirstElement(d.kids[HeadIndex(d)])[1])

\* C17: in the output of clean() the head element exists and its first child
\* element is a meta element declaring charset UTF-8, whatever charset
\* declarations the head of the input had: none, one that is not UTF-8, or
\* one that is not the first child
C17_MetaCharsetFirst ==
    outcome = "returned" => MetaFirstInHead(doc)

\* what the code does satisfy of C17: the claim holds unless the head of the
\* input declares a charset in an element that is not its first one
C17_UnlessDeclaredLater ==
    (/\ outcome = "returned"
     /\ HasHead(input) =>
            \/ \A m \in Range(Descendants(input.kids[HeadIndex(input)])) :
                   ~(m.tag = "meta" /\ Has(m, "charset"))
            \/ LET first == FirstElement(input.kids[HeadIndex(input)])
               IN  first # <<>> /\ first[1].tag = "meta" /\ Has(first[1], "charset"))
        => MetaFirstInHead(doc)

-----------------------------------------------------------------------------
(* The order of the passes *)

\* the numbers of the written pass list in the order clean() runs them: the
\* vendor-macro removal (12) comes before the attribute sanitization (11)
AmendedOrder ==
    <<1, 2, 3, 4, 5, 6, 7, 8, 9, 10, 12, 11, 13, 14, 15, 16, 17, 18, 19, 20>>

\* the k-th pass of clean() has just been run
Ran(k) == outcome = "running" /\ pc = k - 1 /\ pc' = k

\* C18 as written: clean() runs its passes in exactly the order of the
\* written pass list, the attribute/class/id sanitization (11) before the
\* vendor-macro removal (12)
C18_PassesInSpecOrder ==
    [][\A k \in 1..NumPasses :
           Ran(k) => doc' = PassInSpecOrder(k, doc, title)]_vars

\* C18, amended: clean() runs the passes of the written list in the order
\* 1..10, 12, 11, 13..20: the vendor-macro removal runs before the
\* attribute/class/id sanitization, both after the structural pruning and
\* before the empty-element pruning and the whitespace normalization
C18_PassesInAmendedOrder ==
    [][\A k \in 1..NumPasses :
           Ran(k) => doc' = PassInSpecOrder(AmendedOrder[k], doc, title)]_vars

\* the first twelve passes have run on a document with an informational box:
\* the box is unwrapped and its paragraph is still there, while the
\* sanitization followed by the macro removal would have kept the box
C18_Witness ==
    /\ pc = 12 /\ run = 1 /\ outcome = "running"
    /\ \E i \in DOMAIN Nodes(input) :
           LET m == Nodes(input)[i]
           IN  /\ IsElem(m) /\ HasClass(m, "confluence-information-macro")
               /\ m.kids # <<>>
               /\ NodeById(doc, m.nid) = <<>>
               /\ NodeById(doc, m.kids[1].nid) # <<>>
               /\ NodeById(_remove_confluence_specific(
                               _clean_attributes_and_classes(input)), m.nid) # <<>>

-----------------------------------------------------------------------------
(* Properties of the generated tree, checked under BatchSpec *)

\* some folder of the tree named name has the file p as an entry
RECURSIVE UnderBranch(_, _, _)
UnderBranch(node, name, p) ==
    \E i \in DOMAIN node.children :
        \/ /\ node.children[i].name = name
           /\ node.children[i].path = <<>>
           /\ \E j \in DOMAIN node.children[i].children :
                  node.children[i].children[j].path = <<p>>
        \/ UnderBranch(node.children[i], name, p)

\* C20: when the main workflow has generated the document tree from the
\* files of the output directory, a document whose exported page had the
\* breadcrumbs [S, P] is placed under the branch P of the tree
C20_TreeFollowsBreadcrumbs ==
    bpc = "tree" =>
        \A p \in DOMAIN outFiles :
            LET crumbs == extract_breadcrumbs(files[outFiles[p].of].soup).breadcrumbs
            IN  (outFiles[p].kind = "html" /\ Len(crumbs) = 2)
                    => UnderBranch(root, crumbs[2], p)

\* what the code does satisfy of C20: every file of the output directory is
\* an entry of the tree, and every entry is at the top level
C20_EveryDocumentAtTopLevel ==
    bpc = "tree" =>
        /\ \A i \in DOMAIN added : added[i].breadcrumbs = <<>>
        /\ \A i \in DOMAIN root.children : root.children[i].path # <<>>
        /\ \A p \in DOMAIN outFiles :
               outFiles[p].kind = "html" =>
                   \E i \in DOMAIN added : added[i].file = p

-----------------------------------------------------------------------------
(* A column layout whose conversion fails *)

\* the column layouts of d whose conversion raises
FailingLayouts(d) ==
    SelectSeq(Nodes(d), LAMBDA n : IsElem(n) /\ IsLayout(n) /\ LayoutRaises(n))

\* the nodes of the input that ns holds, by identity
InputNodes(ns) == {ns[i].nid : i \in DOMAIN ns} \ {0}

\* the pass over the column layouts has just run
ConvertedLayouts == outcome = "running" /\ pc = 6 /\ pc' = 7

\* C21: when the conversion of a column layout fails part-way, the layout
\* element and the content of all of its columns remain in the document
C21_FailedLayoutKeepsContent ==
    [][ConvertedLayouts =>
           \A i \in DOMAIN FailingLayouts(doc) :
               \A k \in InputNodes(Nodes(FailingLayouts(doc)[i])) :
                   NodeById(doc', k) # <<>>]_vars

\* what the code does satisfy of C21: the layout element and its cell
\* containers remain, and so does the content of the cells beyond the widths
\* of the variant, which the loop never reached
C21_FailedLayoutKeepsLaterCells ==
    [][ConvertedLayouts =>
           \A i \in DOMAIN FailingLayouts(doc) :
               LET n == FailingLayouts(doc)[i]
                   cells == Cells(n)
                   reached == Len(ColWidths(LayoutType(n), Len(cells)))
               IN  /\ NodeById(doc', n.nid) # <<>>
                   /\ \A c \in DOMAIN cells :
                          /\ NodeById(doc', cells[c].nid) # <<>>
                          /\ c > reached =>
                                 \A k \in InputNodes(Nodes(cells[c])) :
                                     NodeById(doc', k) # <<>>]_vars

-----------------------------------------------------------------------------
(* The output paths of one batch *)

\* the cleaned HTML files of the output directory
HtmlOutputs == {p \in DOMAIN outFiles : outFiles[p].kind = "html"}

\* target_dir / new_filename for the i-th input file
TargetHtmlPath(i) ==
    _create_directory_path(NewBaseDir(space_name),
                           Tail(_extract_breadcrumbs(files[i].soup))).path
        \o <<_get_safe_filename(files[i].soup, files[i].stem, space_name)>>

\* the input files _process_html_file saves a cleaned document for
SavedFiles ==
    {i \in DOMAIN files : /\ _extract_breadcrumbs(files[i].soup) # <<>>
                          /\ ~CleanedHtml(files[i].soup).raised}

\* C22: within one batch run the input files counted as processed are
\* written to different output paths: no cleaned document overwrites
\* another, and the number of cleaned HTML files produced equals
\* processed_files
C22_ProcessedFilesKeptApart ==
    bpc = "returned" =>
        /\ Cardinality(HtmlOutputs) >= stats.processed_files
        /\ ~create_docx => Cardinality(HtmlOutputs) = stats.processed_files

\* what the code does satisfy of C22: the claim holds for a batch whose saved
\* files have target paths that differ, before and after the files that have
\* a folder of their own name are moved into it
C22_UnlessSamePath ==
    (/\ bpc = "returned"
     /\ \A i, j \in SavedFiles :
            i # j => /\ TargetHtmlPath(i) # TargetHtmlPath(j)
                     /\ MovedPath(TargetHtmlPath(i), outDirs)
                            # MovedPath(TargetHtmlPath(j), outDirs))
        => /\ Cardinality(HtmlOutputs) >= stats.processed_files
           /\ ~create_docx => Cardinality(HtmlOutputs) = stats.processed_files

-----------------------------------------------------------------------------
(* Table wrappers *)

IsTableWrapper(n) == IsElem(n) /\ n.tag = "div" /\ HasClass(n, "table-wrap")

TableWrappers(d) == SelectSeq(Nodes(d), IsTableWrapper)

\* the pass over the table wrappers has just run
UnwrappedTables == outcome = "running" /\ pc = 7 /\ pc' = 8

\* C23: unwrapping the table wrappers loses no content: every node that was
\* inside a table-wrap container is still in the document after the pass,
\* also when the container holds other content besides its first table
C23_UnwrappingLosesNothing ==
    [][UnwrappedTables =>
           \A i \in DOMAIN TableWrappers(doc) :
               \A k \in InputNodes(Descendants(TableWrappers(doc)[i])) :
                   NodeById(doc', k) # <<>>]_vars

\* what the code does satisfy of C23: the first table of a wrapper is kept
\* with all it holds, and a wrapper without a table keeps all its content
C23_FirstTableKept ==
    [][UnwrappedTables =>
           \A i \in DOMAIN TableWrappers(doc) :
               LET wrapper == TableWrappers(doc)[i]
                   table == FindTag(wrapper, "table")
                   kept == IF table = <<>> THEN Descendants(wrapper)
                           ELSE Nodes(table[1])
               IN  /\ NodeById(doc', wrapper.nid) = <<>>
                   /\ \A k \in InputNodes(kept) : NodeById(doc', k) # <<>>]_vars

-----------------------------------------------------------------------------
(* The images after their normalization *)

\* the image normalization of the running clean() is done
AfterImages == pc >= 2

ImagesOf(d) == SelectSeq(Nodes(d), LAMBDA n : IsElem(n) /\ n.tag = "img")

\* C24: after the image normalization no src of an image has a query
\* string, whether the src is relative, rooted or an absolute URL
C24_NoQueryInSrc ==
    AfterImages =>
        \A i \in DOMAIN ImagesOf(doc) :
            Has(ImagesOf(doc)[i], "src") => ImagesOf(doc)[i].attrs["src"].query = ""

\* what the code does satisfy of C24: the query string is gone from every
\* src the pass has resolved against the working directory, that is from
\* the relative ones of a document without a base_url element
C24_NoQueryInResolvedSrc ==
    AfterImages =>
        \A i \in DOMAIN ImagesOf(doc) :
            LET img == ImagesOf(doc)[i]
                was == NodeById(input, img.nid)
            IN  (/\ run # 2 /\ was # <<>>
                 /\ Has(was[1], "src") /\ SrcNonEmpty(was[1].attrs["src"])
                 /\ ~was[1].attrs["src"].bad
                 /\ ~PathIsAbsolute(UrlPath(was[1].attrs["src"]))
                 /\ BaseUrl(input) = <<>>)
                    => Has(img, "src") /\ img.attrs["src"].query = ""
                           /\ img.attrs["src"].via = "cwd"

-----------------------------------------------------------------------------
(* The footer paragraph *)

\* the structural pruning has just run
PrunedSections == outcome = "running" /\ pc = 8 /\ pc' = 9

\* the paragraphs of d the selectors of the pruning leave in place
ParagraphsLeft(d) ==
    SelectSeq(Nodes(RemoveSelected(d)[1]),
              LAMBDA n : IsElem(n) /\ n.tag = "p" /\ n.nid # 0)

\* C25: the structural pruning removes a paragraph as vendor footer only
\* when the whole text of the paragraph is the footer phrase; a paragraph
\* that has other content and merely contains the phrase is kept
C25_FooterOnlyWhenWholeText ==
    [][PrunedSections =>
           \A i \in DOMAIN ParagraphsLeft(doc) :
               LET p == ParagraphsLeft(doc)[i]
               IN  NodeById(doc', p.nid) = <<>>
                       => Strip(GetText(p, FALSE)) = S_footer_phrase]_vars

\* what the code does satisfy of C25: a paragraph is removed as vendor
\* footer exactly when its text contains the footer phrase
C25_FooterWhenPhraseContained ==
    [][PrunedSections =>
           \A i \in DOMAIN ParagraphsLeft(doc) :
               LET p == ParagraphsLeft(doc)[i]
               IN  NodeById(doc', p.nid) = <<>>
                       <=> Contains(GetText(p, FALSE), S_footer_phrase)]_vars

-----------------------------------------------------------------------------
(* Whitespace in preformatted and code contexts *)

\* the text nodes below n, each with the tag of its parent and with whether
\* it has a pre or code ancestor; inside tells it of n itself
RECURSIVE TextsBelow(_, _)
TextsBelow(n, inside) ==
    LET here == inside \/ n.tag \in {"pre", "code"}
    IN  SeqConcat([i \in 1..Len(n.kids) |->
            IF IsText(n.kids[i])
            THEN <<[nid |-> n.kids[i].nid, text |-> n.kids[i].text,
                    parent |-> n.tag, preformatted |-> here]>>
            ELSE IF IsComment(n.kids[i]) THEN <<>>
            ELSE TextsBelow(n.kids[i], here)])

\* the whitespace normalization has just run
CleanedWhitespace == outcome = "running" /\ pc = 16 /\ pc' = 17

\* C26: the whitespace normalization leaves unchanged every text node that
\* has a pre or code ancestor at any depth, and collapses the whitespace runs
\* of every other text node to one space
C26_PreformattedUntouched ==
    [][CleanedWhitespace =>
           \A i \in DOMAIN TextsBelow(doc, FALSE) :
               LET t == TextsBelow(doc, FALSE)[i]
                   after == NodeById(doc', t.nid)
               IN  t.nid # 0 =>
                       /\ after # <<>>
                       /\ IF t.preformatted THEN after[1].text = t.text
                          ELSE Strip(after[1].text) = Strip(CollapseWs(t.text))]_vars

\* what the code does satisfy of C26: a text node whose parent is a pre or
\* a code element is left unchanged, and every other text node has its
\* whitespace runs collapsed
C26_UntouchedDirectlyBelowPre ==
    [][CleanedWhitespace =>
           \A i \in DOMAIN TextsBelow(doc, FALSE) :
               LET t == TextsBelow(doc, FALSE)[i]
                   after == NodeById(doc', t.nid)
               IN  t.nid # 0 =>
                       /\ after # <<>>
                       /\ IF t.parent \in {"pre", "code"} THEN after[1].text = t.text
                          ELSE Strip(after[1].text) = Strip(CollapseWs(t.text))]_vars

-----------------------------------------------------------------------------
(* The headings *)

HeadingsOf(d) == SelectSeq(Nodes(d), LAMBDA n : IsElem(n) /\ n.tag \in heading_levels)

\* the heading normalization has just run
StandardizedHeadings == outcome = "running" /\ pc = 13 /\ pc' = 14

\* the heading is bare: no attributes and no child elements
BareHeading(h) ==
    /\ h.attrs = NoAttrs
    /\ \A i \in DOMAIN h.kids : IsText(h.kids[i])

\* C27: the heading normalization replaces every h1-h6 element by a heading
\* of the same level without attributes and without child elements, whose
\* text is the text content of the original heading, the concatenation of
\* its text nodes, up to leading and trailing whitespace
C27_HeadingKeepsItsText ==
    [][StandardizedHeadings =>
           /\ Len(HeadingsOf(doc')) = Len(HeadingsOf(doc))
           /\ \A i \in DOMAIN HeadingsOf(doc) :
                  LET old == HeadingsOf(doc)[i]
                      new == HeadingsOf(doc')[i]
                  IN  /\ new.tag = old.tag
                      /\ BareHeading(new)
                      /\ Strip(GetText(new, FALSE)) = Strip(GetText(old, FALSE))]_vars

\* what the code does satisfy of C27: level and bareness are as claimed, and
\* the text is that of the original heading with the whitespace at the ends
\* of every single text node removed
C27_HeadingKeepsTrimmedTexts ==
    [][StandardizedHeadings =>
           /\ Len(HeadingsOf(doc')) = Len(HeadingsOf(doc))
           /\ \A i \in DOMAIN HeadingsOf(doc) :
                  LET old == HeadingsOf(doc)[i]
                      new == HeadingsOf(doc')[i]
                      texts == SelectSeq(Nodes(old), IsText)
                  IN  /\ new.tag = old.tag
                      /\ BareHeading(new)
                      /\ GetText(new, FALSE)
                             = SeqConcat([j \in DOMAIN texts |-> Strip(texts[j].text)])]_vars

-----------------------------------------------------------------------------
(* The tables of the output *)

TablesOf(d) == SelectSeq(Nodes(d), LAMBDA n : IsElem(n) /\ n.tag = "table")

CellsOf(d) == SelectSeq(Nodes(d), LAMBDA n : IsElem(n) /\ n.tag \in {"td", "th"})

\* the td and th elements at or below n that have a table above them
RECURSIVE CellsInTables(_, _)
CellsInTables(n, inTable) ==
    (IF inTable /\ n.tag \in {"td", "th"} THEN <<n>> ELSE <<>>)
    \o SeqConcat([i \in 1..Len(n.kids) |->
                     IF IsElem(n.kids[i])
                     THEN CellsInTables(n.kids[i], inTable \/ n.tag = "table")
                     ELSE <<>>])

CleanedTable(t) ==
    /\ Has(t, "class") /\ \E i \in DOMAIN t.attrs["class"] :
                              t.attrs["class"][i] = "custom-table"
    /\ (DOMAIN t.attrs) \cap {"border", "cellspacing", "cellpadding", "style"} = {}

CleanedCell(c) == (DOMAIN c.attrs) \subseteq {"colspan", "rowspan", "class"}

\* C28 as written: in the output of clean() every table carries the class
\* custom-table and none of border, cellspacing, cellpadding and style, and
\* every td and th carries no attribute other than colspan, rowspan and class
C28_TablesAndAllCellsClean ==
    outcome = "returned" =>
        /\ \A i \in DOMAIN TablesOf(doc) : CleanedTable(TablesOf(doc)[i])
        /\ \A i \in DOMAIN CellsOf(doc) : CleanedCell(CellsOf(doc)[i])

\* What the code does satisfy of C28: in the output of clean() every table
\* carries the class custom-table and none of border, cellspacing,
\* cellpadding and style, and every td and th that still has a table above
\* it carries no attribute other than colspan, rowspan and class
C28_TablesAndTheirCellsClean ==
    outcome = "returned" =>
        /\ \A i \in DOMAIN TablesOf(doc) : CleanedTable(TablesOf(doc)[i])
        /\ \A i \in DOMAIN CellsInTables(doc, FALSE) :
               CleanedCell(CellsInTables(doc, FALSE)[i])

\* clean() has returned for a table that had border, cellspacing,
\* cellpadding, style and a class, with a th that had colspan and align and a
\* td that had rowspan, style and width: the table is in the output with
\* its class and custom-table, and the cells with colspan and rowspan
C28_Witness ==
    /\ Cleaned
    /\ \E i \in DOMAIN TablesOf(input) :
           LET t == TablesOf(input)[i]
               out == NodeById(doc, t.nid)
               cells == CellsInTables(t, FALSE)
           IN  /\ {"border", "cellspacing", "cellpadding", "style", "class"}
                      \subseteq DOMAIN t.attrs
               /\ out # <<>>
               /\ out[1].attrs = [class |-> <<"wide", "custom-table">>]
               /\ \E c \in DOMAIN cells :
                      /\ {"colspan", "align"} \subseteq DOMAIN cells[c].attrs
                      /\ NodeById(doc, cells[c].nid) # <<>>
                      /\ DOMAIN NodeById(doc, cells[c].nid)[1].attrs = {"colspan"}
               /\ \E c \in DOMAIN cells :
                      /\ {"rowspan", "style", "width"} \subseteq DOMAIN cells[c].attrs
                      /\ NodeById(doc, cells[c].nid) # <<>>
                      /\ DOMAIN NodeById(doc, cells[c].nid)[1].attrs = {"rowspan", "class"}

-----------------------------------------------------------------------------
(* The images of the output *)

\* the images of the input that had no alt attribute
ImagesWithoutAlt == SelectSeq(ImagesOf(input), LAMBDA n : ~Has(n, "alt"))

\* C29: in the output of clean() every img element has an alt attribute, the
\* empty string when the input had none, and carries no attribute outside
\* src, alt, title, width, height and style
C29_ImagesHaveAltAndAllowedAttrs ==
    outcome = "returned" =>
        /\ \A i \in DOMAIN ImagesOf(doc) :
               /\ Has(ImagesOf(doc)[i], "alt")
               /\ (DOMAIN ImagesOf(doc)[i].attrs)
                      \subseteq {"src", "alt", "title", "width", "height", "style"}
        /\ run = 1 =>
               \A i \in DOMAIN ImagesWithoutAlt :
                   LET out == NodeById(doc, ImagesWithoutAlt[i].nid)
                   IN  out # <<>> => out[1].attrs["alt"] = <<>>

\* clean() has returned for an image that had a class and no alt, and whose
\* try block raised: it is in the output with an empty alt and without the
\* class
C29_Witness ==
    /\ Cleaned
    /\ \E i \in DOMAIN ImagesWithoutAlt :
           LET n == ImagesWithoutAlt[i]
               out == NodeById(doc, n.nid)
           IN  /\ Has(n, "class")
               /\ ImageRaises(n, BaseUrl(input))
               /\ out # <<>>
               /\ out[1].tag = "img"
               /\ out[1].attrs["alt"] = <<>>
               /\ ~Has(out[1], "class")

\* clean() has returned for an image that had an alt text, a title and
\* attributes outside the allow-list: it is in the output with the alt text
\* and the title it had
C29_AltKept ==
    /\ Cleaned
    /\ \E i \in DOMAIN ImagesOf(input) :
           LET n == ImagesOf(input)[i]
               out == NodeById(doc, n.nid)
           IN  /\ Has(n, "alt") /\ Has(n, "loading")
               /\ out # <<>>
               /\ DOMAIN out[1].attrs = {"src", "alt", "title"}
               /\ out[1].attrs["alt"] = n.attrs["alt"]

-----------------------------------------------------------------------------
(* The order of the entries in the two renderings of the tree *)

\* the node of the tree at a path of names, from the node n
RECURSIVE NodeAt(_, _)
NodeAt(n, names) ==
    IF names = <<>> THEN n
    ELSE NodeAt(n.children[ChildIndex(n, Head(names))], Tail(names))

\* the child of the tree a row of the table was written for
RowChild(row) ==
    LET parent == NodeAt(root, SubSeq(row, 1, Len(row) - 1))
        last == row[Len(row)]
    IN  CHOOSE c \in Range(parent.children) :
            IF c.path # <<>> /\ show_filenames
            THEN last = NameWithPath(c.name, c.path[1])
            ELSE last = c.name

\* the entries of the table: a row is the entry of a folder or of a file
\* at the level of its length, below the folder its other names lead to
TableEntries ==
    [i \in DOMAIN exported.rows |->
        [above |-> SubSeq(exported.rows[i], 1, Len(exported.rows[i]) - 1),
         folder |-> RowChild(exported.rows[i]).path = <<>>,
         name |-> RowChild(exported.rows[i]).name]]

\* two entries of one group of a level are in case-insensitive alphabetical
\* order, and no file entry of a level comes before a folder entry of it
InOrder(first, second) ==
    /\ ~(~first.folder /\ second.folder)
    /\ first.folder = second.folder =>
           ~StrLess(Lower(second.name), Lower(first.name))

TableInOrder ==
    exported.format = "table" =>
        \A i, j \in DOMAIN TableEntries :
            (i < j /\ TableEntries[i].above = TableEntries[j].above)
                => InOrder(TableEntries[i], TableEntries[j])

\* two lines of the outline are entries of the same level of the same folder
SameLevel(i, j) ==
    /\ i < j
    /\ exported.lines[i].level = exported.lines[j].level
    /\ \A k \in i..j : exported.lines[k].level >= exported.lines[i].level

OutlineInOrder ==
    exported.format = "tree" =>
        \A i, j \in DOMAIN exported.lines :
            SameLevel(i, j) => InOrder(exported.lines[i], exported.lines[j])

\* C30: in both renderings of the document tree, at every level all folder
\* entries are emitted before all file entries, and within each of the two
\* groups the entries are in case-insensitive alphabetical order of their
\* names
C30_FoldersFirstThenAlphabetical == TableInOrder /\ OutlineInOrder

\* a document of the tree is the parent of other entries
RECURSIVE HasParentDocument(_)
HasParentDocument(n) ==
    \/ n.path # <<>> /\ n.children # <<>>
    \/ \E i \in DOMAIN n.children : HasParentDocument(n.children[i])

\* What the code does satisfy of C30: when no document of the tree is the
\* parent of other entries, both renderings emit the folders of a level
\* before its files, each group in case-insensitive alphabetical order
C30_InOrderWithoutParentDocuments ==
    ~HasParentDocument(root) => (TableInOrder /\ OutlineInOrder)

\* an outline of a tree without parent documents that has a level with a
\* folder and two files, where the folder was added after the last file
C30_Witness ==
    /\ ~HasParentDocument(root)
    /\ exported.format = "tree"
    /\ \E i, j, k \in DOMAIN exported.lines :
           /\ SameLevel(i, j) /\ SameLevel(j, k)
           /\ exported.lines[i].folder /\ ~exported.lines[j].folder
           /\ ~exported.lines[k].folder
           /\ \E a, b \in DOMAIN root.children :
                  /\ a < b
                  /\ root.children[a].name = exported.lines[k].name
                  /\ root.children[b].name = exported.lines[i].name

====
